---- MODULE Spec2Model ----
\* ACE framework: the artifact-routing-and-aggregation pipeline of
\* rahul-ar-sys/ace-framework, modelled operation by operation.
\*
\* Numbers.  Scores are Python floats in the source.  Here a score is an integer
\* number of hundredths of a point (90.0 is 9000) and a weight an integer number
\* of hundredths (0.4 is 40), so sums and products are exact.  A quotient that
\* the source keeps as a float is kept as a fraction [num, den]; round(x, 2) is
\* a rounding to the nearest hundredth, see Round2.
EXTENDS Integers, Sequences, FiniteSets, TLC

\* ------------------------------------------------------------------ bounds
MaxSubmissions == 2
MaxArtifacts == 2
MaxTasks == 3
MaxResults == 3
MaxScores == 3
MaxParTasks == 2
MaxRows == 2
MaxStudents == 3
MaxStored == 2
MaxOps == 4

\* --------------------------------------------------------- program constants
\* src/config/settings.py ACEConfig, in hundredths
analysis_weight == 40
communication_weight == 30
evaluation_weight == 30
passing_score == 7000
excellence_threshold == 9000
\* _create_ace_score clamps into [0.0, 100.0]
ScoreFloor == 0
ScoreCeiling == 10000
\* generate_tasks: retry_count=0, max_retries=3
InitialRetryCount == 0
DefaultMaxRetries == 3

ArtifactType == {"mcq", "text", "audio"}
ACEDimension == <<"analysis", "communication", "evaluation">>
\* ScoreAggregator.__init__: {"mcq": 0.4, "text": 0.35, "audio": 0.25}
artifact_weights == [mcq |-> 40, text |-> 35, audio |-> 25]

None == "None"

\* ------------------------------------------------------------------ helpers
RECURSIVE SumSeq(_)
SumSeq(s) == IF s = <<>> THEN 0 ELSE Head(s) + SumSeq(Tail(s))

MapSeq(s, Op(_)) == [i \in 1..Len(s) |-> Op(s[i])]

SeqsUpTo(S, n) == UNION {[1..k -> S] : k \in 0..n}

Max2(a, b) == IF a >= b THEN a ELSE b
Min2(a, b) == IF a <= b THEN a ELSE b
Abs(x) == IF x < 0 THEN 0 - x ELSE x

\* Python's x / y on floats: a ZeroDivisionError when y is 0, else the quotient,
\* kept exact as a fraction with a positive denominator.
Div(n, d) ==
    IF d = 0 THEN [ok |-> FALSE, num |-> 0, den |-> 1]
    ELSE IF d < 0 THEN [ok |-> TRUE, num |-> 0 - n, den |-> 0 - d]
    ELSE [ok |-> TRUE, num |-> n, den |-> d]

Zero == [ok |-> TRUE, num |-> 0, den |-> 1]

\* ----------------------------------------------------- processors/base.py
\* config/models/core_models.py ACEScore: `score: float`, no validator; the
\* constructor keeps the score it is given.
ACEScore(dimension, score, weight) ==
    [dimension |-> dimension, score |-> score, weight |-> weight]

\* BaseProcessor._create_ace_score: score=max(0.0, min(100.0, score))
_create_ace_score(dimension, score, weight) ==
    ACEScore(dimension, Max2(ScoreFloor, Min2(ScoreCeiling, score)), weight)

\* BaseProcessor._calculate_overall_score
\* (the _lt variant tests total_weight < 0 where the source tests <= 0)
_calculate_overall_score_lt(ace_scores) ==
    IF ace_scores = <<>> THEN Zero
    ELSE LET total_weight == SumSeq(MapSeq(ace_scores, LAMBDA s : s.weight))
         IN  IF total_weight < 0
             THEN Div(SumSeq(MapSeq(ace_scores, LAMBDA s : s.score)), Len(ace_scores))
             ELSE Div(SumSeq(MapSeq(ace_scores, LAMBDA s : s.score * s.weight)),
                      total_weight)

_calculate_overall_score(ace_scores) ==
    IF ace_scores = <<>> THEN Zero
    ELSE LET total_weight == SumSeq(MapSeq(ace_scores, LAMBDA s : s.weight))
         IN  IF total_weight <= 0
             THEN Div(SumSeq(MapSeq(ace_scores, LAMBDA s : s.score)), Len(ace_scores))
             ELSE Div(SumSeq(MapSeq(ace_scores, LAMBDA s : s.score * s.weight)),
                      total_weight)

\* BaseProcessor._get_ace_weights: the configured map divided by its sum, or
\* by 1.0 when the sum is 0 (`sum(...) or 1.0`).  The maps of RoutingConfigs
\* are chosen so that every quotient is a whole number of hundredths.
_get_ace_weights(routing) ==
    LET raw == IF routing.ace_weight_mapping = <<>> THEN <<0, 0, 0>>
               ELSE routing.ace_weight_mapping
        total == IF SumSeq(raw) = 0 THEN 100 ELSE SumSeq(raw)
    IN  [d \in 1..3 |-> (raw[d] * 100) \div total]

\* What process_task did for one task: it returned an ArtifactResult built from
\* three raw dimension scores, or it raised an exception with a text.
ErrorTexts == {"Empty written response text.", "Missing 'audio_url' in payload."}
RawScoreTriples == {<<9000, 6999, 50000>>}
StrategyOutcomes ==
    [raised : {FALSE}, scores : RawScoreTriples, error : {None}]
    \cup [raised : {TRUE}, scores : {<<>>}, error : ErrorTexts]

\* TextProcessor/AudioProcessor/MCQProcessor._process_core, after the strategy
\* obtained its three raw scores: _calculate_ace_scores, then
\* _calculate_overall_score, then the ArtifactResult.
process_task(task, scores) ==
    LET ace_weights == _get_ace_weights(task.routing_config)
        ace_scores == [d \in 1..3 |->
                         _create_ace_score(ACEDimension[d], scores[d], ace_weights[d])]
    IN  [artifact_id |-> task.artifact_id,
         artifact_type |-> task.artifact_type,
         ace_scores |-> ace_scores,
         overall_score |-> _calculate_overall_score(ace_scores),
         feedback |-> <<"Evaluation complete.">>,
         errors |-> <<>>]

\* BaseProcessor.execute with the except branch removed: the exception leaves
\* execute (the value stands for the raised exception).
execute_propagating(task, outcome) ==
    IF outcome.raised
    THEN [kind |-> "exception", error |-> outcome.error]
    ELSE [kind |-> "CompletedArtifact",
          submission_id |-> task.submission_id,
          student_id |-> task.student_id,
          batch_id |-> task.batch_id,
          artifact_result |-> process_task(task, outcome.scores)]

\* BaseProcessor.execute: try process_task; except Exception -> failure result
execute(task, outcome) ==
    IF outcome.raised
    THEN [kind |-> "CompletedArtifact",
          submission_id |-> task.submission_id,
          student_id |-> task.student_id,
          batch_id |-> task.batch_id,
          artifact_result |->
              [artifact_id |-> task.artifact_id,
               artifact_type |-> task.artifact_type,
               ace_scores |-> <<>>,
               overall_score |-> Zero,
               feedback |-> <<"Processor error: ", outcome.error>>,
               errors |-> <<outcome.error>>]]
    ELSE [kind |-> "CompletedArtifact",
          submission_id |-> task.submission_id,
          student_id |-> task.student_id,
          batch_id |-> task.batch_id,
          artifact_result |-> process_task(task, outcome.scores)]

\* ------------------------------ processors/base.py: any ace_weight_mapping
\* An entry of ace_weight_mapping: a number, or the key is not in the map.
Weight(v) == [present |-> TRUE, v |-> v]
NoWeight == [present |-> FALSE, v |-> 0]
NoMapping == <<>>

\* float(raw.get(dim.value, 0.0)) with raw = routing.get("ace_weight_mapping", {})
RawWeight(mapping, d) ==
    IF mapping = NoMapping THEN 0
    ELSE IF mapping[d].present THEN mapping[d].v ELSE 0

Sign(x) == IF x < 0 THEN 0 - 1 ELSE 1

\* _get_ace_weights without the division by the total
_get_ace_weights_unnormalized(mapping) ==
    [den |-> 1, num |-> [d \in 1..3 |-> RawWeight(mapping, d)]]

\* BaseProcessor._get_ace_weights for any map: total = sum(...) or 1.0, then
\* w / total for every dimension.  The three quotients are kept exact, as
\* numerators num[d] over the common positive denominator den.
_get_ace_weights_exact(mapping) ==
    LET sum == RawWeight(mapping, 1) + RawWeight(mapping, 2) + RawWeight(mapping, 3)
        total == IF sum = 0 THEN 1 ELSE sum
    IN  [den |-> Abs(total),
         num |-> [d \in 1..3 |-> RawWeight(mapping, d) * Sign(total)]]

\* the ACEScore list of a strategy: _create_ace_score for every dimension.
\* An ACEScore's weight holds the numerator of its weight; the denominator
\* is common and positive, so the test total_weight <= 0 and the weighted
\* average of _calculate_overall_score are those of the weights themselves.
WeightedAceScores(raw_scores, weights) ==
    [d \in 1..3 |-> _create_ace_score(ACEDimension[d], raw_scores[d], weights.num[d])]

\* ------------------------------------------------ processors/mcq_processor.py
\* An Optional[bool] is None, "True" or "False".  A dict key that is absent is
\* Missing.  The four-letter string that str(None) returns is NoneText.
Missing == "<missing>"
NoneText == "'None'"

\* a.get(key, default)
Get(value, default) == IF value = Missing THEN default ELSE value
\* str(v) of None or of a string
str(v) == IF v = None THEN NoneText ELSE v
\* bool(v) of None, of a bool, or of the default False
bool(v) == IF v = "True" THEN "True" ELSE "False"

\* _norm inside _evaluate_exact_match: str(v).strip().lower()
_norm(v) ==
    CASE v = "A" -> "a"
      [] v = " a " -> "a"
      [] v = "B" -> "b"
      [] v = " b " -> "b"
      [] v = "b" -> "b"
      [] v = NoneText -> "'none'"
      [] OTHER -> v

\* accuracy = (correct / total_questions * 100.0) if total_questions > 0 else
\* 0.0, in hundredths.  The answer lists of the model have at most two
\* questions, so the quotient is a whole number of hundredths.
Accuracy(correct, total_questions) ==
    IF total_questions > 0 THEN (correct * 10000) \div total_questions ELSE 0

CountCorrect(answers) ==
    Cardinality({k \in 1..Len(answers) : answers[k].is_correct = "True"})

\* build_from_list inside _extract_mcq_artifact: a new MCQAnswer for every
\* answer dict, then the MCQArtifact with its counts
build_from_list(answers_list) ==
    LET answers == [k \in 1..Len(answers_list) |->
                       [question_id |-> str(Get(answers_list[k].question_id, "")),
                        selected_option |->
                            str(Get(answers_list[k].selected_option, "")),
                        correct_option |->
                            str(Get(answers_list[k].correct_option, "")),
                        is_correct |-> Get(answers_list[k].is_correct, None)]]
    IN  [answers |-> answers,
         total_questions |-> Len(answers),
         correct_answers |-> CountCorrect(answers),
         score_percentage |-> Accuracy(CountCorrect(answers), Len(answers))]

\* MCQProcessor._extract_mcq_artifact for a dict payload with "answers"
_extract_mcq_artifact(task) == build_from_list(task.artifact_payload.answers)

\* one turn of the for-loop of _evaluate_exact_match: an answer without a
\* verdict gets one by comparison, and a correct answer adds 1 to `correct`
EvaluateAnswer(ans) ==
    IF ans.is_correct = None
    THEN [ans EXCEPT !.is_correct =
             IF _norm(ans.selected_option) = _norm(ans.correct_option)
             THEN "True" ELSE "False"]
    ELSE ans

CorrectIncrement(ans) == IF EvaluateAnswer(ans).is_correct = "True" THEN 1 ELSE 0

\* MCQProcessor._evaluate_exact_match
_evaluate_exact_match(mcq_artifact) ==
    LET correct == SumSeq(MapSeq(mcq_artifact.answers, CorrectIncrement))
        total_questions == Len(mcq_artifact.answers)
    IN  [total_questions |-> total_questions,
         correct_answers |-> correct,
         accuracy_percentage |-> Accuracy(correct, total_questions)]

\* the MCQArtifact after the for-loop of _evaluate_exact_match: the loop
\* assigns ans.is_correct and nothing else of the artifact
EvaluatedArtifact(mcq_artifact) ==
    [mcq_artifact EXCEPT !.answers = MapSeq(@, EvaluateAnswer)]

\* BaseProcessor._get_processor_config: routing.get("processor_config", {})
_get_processor_config(routing) ==
    IF "processor_config" \in DOMAIN routing THEN routing.processor_config
    ELSE [evaluation_method |-> Missing]

\* .lower() of an evaluation method name
lower(v) ==
    CASE v = "Partial_Credit" -> "partial_credit"
      [] v = "AI_SCORING" -> "ai_scoring"
      [] OTHER -> v

\* MCQProcessor._evaluate_partial_credit and _evaluate_ai_scoring: both log
\* "not implemented" and return _evaluate_exact_match
_evaluate_partial_credit(mcq_artifact, processor_config) ==
    _evaluate_exact_match(mcq_artifact)
_evaluate_ai_scoring(mcq_artifact, processor_config) ==
    _evaluate_exact_match(mcq_artifact)

\* MCQProcessor._evaluate_answers
_evaluate_answers(mcq_artifact, processor_config) ==
    LET method == lower(Get(processor_config.evaluation_method, "exact_match"))
    IN  IF method = "partial_credit"
        THEN _evaluate_partial_credit(mcq_artifact, processor_config)
        ELSE IF method = "ai_scoring"
        THEN _evaluate_ai_scoring(mcq_artifact, processor_config)
        ELSE _evaluate_exact_match(mcq_artifact)

\* MCQProcessor._calculate_ace_scores with the communication score not capped
_calculate_ace_scores_uncapped(eval_result) ==
    <<(eval_result.accuracy_percentage * 9) \div 10,
      eval_result.accuracy_percentage,
      eval_result.accuracy_percentage>>

\* MCQProcessor._calculate_ace_scores, the raw scores handed to
\* _create_ace_score: accuracy * 0.9, min(accuracy, 80.0), accuracy
_calculate_ace_scores(eval_result) ==
    <<(eval_result.accuracy_percentage * 9) \div 10,
      Min2(eval_result.accuracy_percentage, 8000),
      eval_result.accuracy_percentage>>

\* MCQProcessor.process_task, as the outcome BaseProcessor.execute wraps
McqOutcome(eval_result) ==
    [raised |-> FALSE, scores |-> _calculate_ace_scores(eval_result), error |-> None]

\* ------------------------------------------------- processors/ai_client.py
\* A JSON value of the evaluator's response: a number (in hundredths), a
\* string, null, NaN, or absent from the object.
Num(v) == [t |-> "num", v |-> v, s |-> ""]
Str(s) == [t |-> "str", v |-> 0, s |-> s]
Null == [t |-> "null", v |-> 0, s |-> ""]
NaN == [t |-> "nan", v |-> 0, s |-> ""]
Absent == [t |-> "absent", v |-> 0, s |-> ""]

\* data.get(key, default) on the response object
GetField(value, default) == IF value = Absent THEN default ELSE value

\* float(x): a number is kept, "85" parses, NaN stays NaN, None raises
\* TypeError and a string that is no number raises ValueError
float(x) ==
    CASE x.t = "num" -> [raised |-> FALSE, nan |-> FALSE, v |-> x.v]
      [] x.t = "nan" -> [raised |-> FALSE, nan |-> TRUE, v |-> 0]
      [] x.t = "str" /\ x.s = "85" -> [raised |-> FALSE, nan |-> FALSE, v |-> 8500]
      [] OTHER -> [raised |-> TRUE, nan |-> FALSE, v |-> 0]

\* str(x) of a response value
StrField(x) ==
    CASE x.t = "str" -> x.s
      [] x.t = "null" -> NoneText
      [] OTHER -> "<number>"

\* AIClient._fallback_text_response
_fallback_text_response(message) ==
    [raised |-> FALSE,
     analysis_score |-> [nan |-> FALSE, v |-> 0],
     communication_score |-> [nan |-> FALSE, v |-> 0],
     evaluation_score |-> [nan |-> FALSE, v |-> 0],
     analysis_feedback |-> message,
     communication_feedback |-> message,
     evaluation_feedback |-> message,
     overall_feedback |-> message]

\* what evaluate_text_ace is when an exception leaves it
RaisedOut(message) ==
    [raised |-> TRUE,
     analysis_score |-> [nan |-> FALSE, v |-> 0],
     communication_score |-> [nan |-> FALSE, v |-> 0],
     evaluation_score |-> [nan |-> FALSE, v |-> 0],
     analysis_feedback |-> message,
     communication_feedback |-> message,
     evaluation_feedback |-> message,
     overall_feedback |-> message]

\* AIClient._sanitize_ai_output: the three float(...) first, each of which
\* may raise; `data` is the parsed object
_sanitize_ai_output(data) ==
    LET a == float(GetField(data.analysis_score, Num(0)))
        c == float(GetField(data.communication_score, Num(0)))
        e == float(GetField(data.evaluation_score, Num(0)))
    IN  IF a.raised \/ c.raised \/ e.raised
        THEN RaisedOut("AI error: float()")
        ELSE [raised |-> FALSE,
              analysis_score |-> [nan |-> a.nan, v |-> a.v],
              communication_score |-> [nan |-> c.nan, v |-> c.v],
              evaluation_score |-> [nan |-> e.nan, v |-> e.v],
              analysis_feedback |-> StrField(GetField(data.analysis_feedback, Str(""))),
              communication_feedback |->
                  StrField(GetField(data.communication_feedback, Str(""))),
              evaluation_feedback |->
                  StrField(GetField(data.evaluation_feedback, Str(""))),
              overall_feedback |->
                  StrField(GetField(data.overall_feedback, Str("Evaluation complete.")))]

\* the object with no key at all: what _extract_json_from_text returns for
\* text without JSON
EmptyObject ==
    [analysis_score |-> Absent, communication_score |-> Absent,
     evaluation_score |-> Absent, analysis_feedback |-> Absent,
     communication_feedback |-> Absent, evaluation_feedback |-> Absent,
     overall_feedback |-> Absent]

\* the body of the try block of evaluate_text_ace: the API call, json.loads,
\* _extract_json_from_text, _sanitize_ai_output
TryEvaluate(response) ==
    CASE response.kind = "api_error" -> RaisedOut("AI error: api")
      [] response.kind = "object" -> _sanitize_ai_output(response.data)
      [] response.kind = "not_json" -> _sanitize_ai_output(EmptyObject)
      [] OTHER -> RaisedOut("AI error: 'list' object has no attribute 'get'")

\* evaluate_text_ace without its `except Exception` clause
evaluate_text_ace_uncaught(client, response, text) ==
    IF ~client THEN _fallback_text_response("AI model unavailable.")
    ELSE IF text = "" THEN _fallback_text_response("No text provided for evaluation.")
    ELSE TryEvaluate(response)

\* AIClient.evaluate_text_ace
evaluate_text_ace(client, response, text) ==
    IF ~client THEN _fallback_text_response("AI model unavailable.")
    ELSE IF text = "" THEN _fallback_text_response("No text provided for evaluation.")
    ELSE LET out == TryEvaluate(response)
         IN  IF out.raised THEN _fallback_text_response(out.overall_feedback)
             ELSE out

\* --------------------------------------------- processors/text_processor.py
\* str(raw["text_content"]).strip()
strip(v) == IF v = "   " THEN "" ELSE v

\* _create_ace_score on a float that may be NaN: max(0.0, min(100.0, nan))
\* is 100.0, because min and max keep their first argument when the
\* comparison with nan is false
ClampedScore(dimension, f, weight) ==
    IF f.nan THEN ACEScore(dimension, ScoreCeiling, weight)
    ELSE _create_ace_score(dimension, f.v, weight)

\* TextProcessor._calculate_ace_scores
text_calculate_ace_scores(ai_result, ace_weights) ==
    <<ClampedScore(ACEDimension[1], ai_result.analysis_score, ace_weights[1]),
      ClampedScore(ACEDimension[2], ai_result.communication_score, ace_weights[2]),
      ClampedScore(ACEDimension[3], ai_result.evaluation_score, ace_weights[3])>>

\* TextProcessor._process_core from the evaluation on: the ArtifactResult
text_process_core(task, ai_result) ==
    LET ace_scores == text_calculate_ace_scores(ai_result,
                                                _get_ace_weights(task.routing_config))
    IN  [artifact_id |-> task.artifact_id,
         artifact_type |-> task.artifact_type,
         ace_scores |-> ace_scores,
         overall_score |-> _calculate_overall_score(ace_scores),
         feedback |-> <<ai_result.overall_feedback>>,
         errors |-> <<>>]

\* ---------------------- processors/mcq_processor.py: every payload shape
\* A payload value: an MCQArtifact instance (a reference to the object), a
\* dict, a str with what json.loads makes of it, a list, or anything else.
KeyMissing == [type |-> "missing"]
JOther == [type |-> "other"]
JInvalid == [type |-> "invalid"]
JList(items) == [type |-> "list", items |-> items]
JDict(answers) == [type |-> "dict", answers |-> answers]
JStr(parsed) == [type |-> "str", parsed |-> parsed]
TypedPayload(ref) == [type |-> "MCQArtifact", ref |-> ref]
DictPayload(mcq_data, answers, artifact_content) ==
    [type |-> "dict", mcq_data |-> mcq_data, answers |-> answers,
     artifact_content |-> artifact_content]

Extracted(artifact) == [raised |-> FALSE, passthrough |-> FALSE, artifact |-> artifact]
ExtractRaised == [raised |-> TRUE, passthrough |-> FALSE, artifact |-> [built |-> FALSE]]
NoMatch == [raised |-> FALSE, passthrough |-> FALSE, artifact |-> [built |-> FALSE]]

\* the try blocks around json.loads: a list, or a dict with "answers", is
\* built; invalid JSON and an exception of build_from_list are passed over
ParsedAnswers(parsed) ==
    IF parsed.type = "list" THEN Extracted(build_from_list(parsed.items))
    ELSE IF parsed.type = "dict" /\ parsed.answers.type = "list"
    THEN Extracted(build_from_list(parsed.answers.items))
    ELSE NoMatch

\* the final fallback: one answer tagged with the artifact's id
FallbackArtifact(task) ==
    build_from_list(<<[question_id |-> task.artifact_id,
                       selected_option |-> "<str(payload)>",
                       correct_option |-> "",
                       is_correct |-> "False"]>>)

\* Case 2 of _extract_mcq_artifact, the dict payload, up to the fallback
ExtractFromDict(payload) ==
    IF payload.mcq_data.type = "dict" /\ payload.mcq_data.answers.type # "missing"
    THEN IF payload.mcq_data.answers.type = "list"
         THEN Extracted(build_from_list(payload.mcq_data.answers.items))
         ELSE ExtractRaised
    ELSE IF payload.answers.type = "list"
    THEN Extracted(build_from_list(payload.answers.items))
    ELSE IF payload.artifact_content.type = "str"
    THEN ParsedAnswers(payload.artifact_content.parsed)
    ELSE NoMatch

\* Case 2 with the direct "answers" list looked at before "mcq_data"
ExtractFromDictAnswersFirst(payload) ==
    IF payload.answers.type = "list"
    THEN Extracted(build_from_list(payload.answers.items))
    ELSE IF payload.mcq_data.type = "dict" /\ payload.mcq_data.answers.type # "missing"
    THEN IF payload.mcq_data.answers.type = "list"
         THEN Extracted(build_from_list(payload.mcq_data.answers.items))
         ELSE ExtractRaised
    ELSE IF payload.artifact_content.type = "str"
    THEN ParsedAnswers(payload.artifact_content.parsed)
    ELSE NoMatch

\* _extract_mcq_artifact with the two dict shapes in the other order
_extract_mcq_artifact_answers_first(task, heap) ==
    LET payload == task.artifact_payload
        found == CASE payload.type = "dict" -> ExtractFromDictAnswersFirst(payload)
                   [] payload.type = "str" -> ParsedAnswers(payload.parsed)
                   [] OTHER -> NoMatch
    IN  IF payload.type = "MCQArtifact"
        THEN [raised |-> FALSE, passthrough |-> TRUE, artifact |-> heap[payload.ref]]
        ELSE IF found = NoMatch THEN Extracted(FallbackArtifact(task))
        ELSE found

\* MCQProcessor._extract_mcq_artifact for every payload: the MCQArtifact
\* instance itself, or a new artifact
_extract_mcq_artifact_any(task, heap) ==
    LET payload == task.artifact_payload
        found == CASE payload.type = "dict" -> ExtractFromDict(payload)
                   [] payload.type = "str" -> ParsedAnswers(payload.parsed)
                   [] OTHER -> NoMatch
    IN  IF payload.type = "MCQArtifact"
        THEN [raised |-> FALSE, passthrough |-> TRUE, artifact |-> heap[payload.ref]]
        ELSE IF found = NoMatch THEN Extracted(FallbackArtifact(task))
        ELSE found

\* ------------------------------------------ services/ingestion/csv_parser.py
\* The artifact_content cell of an MCQ row: JSON text of a list of answer
\* dicts, or text that json.loads or the loop over it rejects.
JsonList(answers) == [kind |-> "list", answers |-> answers]
NotAnAnswerList == [kind |-> "invalid", answers |-> <<>>]

EmptyMcqArtifact ==
    [answers |-> <<>>, total_questions |-> 0, correct_answers |-> 0,
     score_percentage |-> 0]

\* CSVParser._parse_mcq: is_correct=bool(a.get("is_correct", False)); any
\* exception gives the empty MCQArtifact
_parse_mcq(artifact_content) ==
    IF artifact_content.kind # "list" THEN EmptyMcqArtifact
    ELSE
    LET answers_data == artifact_content.answers
        answers == [k \in 1..Len(answers_data) |->
                       [question_id |-> str(Get(answers_data[k].question_id, "")),
                        selected_option |->
                            str(Get(answers_data[k].selected_option, "")),
                        correct_option |->
                            str(Get(answers_data[k].correct_option, "")),
                        is_correct |->
                            bool(Get(answers_data[k].is_correct, "False"))]]
        correct == CountCorrect(answers)
    IN  [answers |-> answers,
         total_questions |-> Len(answers),
         correct_answers |-> correct,
         score_percentage |-> Accuracy(correct, Len(answers))]

\* CSVParser.supported_artifact_types: {t.value for t in ArtifactType}
supported_artifact_types == {"mcq", "text", "audio"}

\* str(raw) of a cell, json.dumps(row_dict, default=str) of a row
StrOf(raw) == <<"str", raw>>
JsonDumps(row_dict) == <<"json", row_dict>>

TextArtifact(text_content) == [kind |-> "TextArtifact", text_content |-> text_content]
AudioArtifact(format) == [kind |-> "AudioArtifact", format |-> format]

\* CSVParser._validate_known_structure, given the required columns exist:
\* the artifact types that make it raise ValueError
InvalidArtifactTypes(rows) ==
    {rows[k].artifact_type : k \in 1..Len(rows)} \ supported_artifact_types

\* CSVParser._parse_content
_parse_content(row, artifact_type) ==
    IF artifact_type = "mcq" THEN _parse_mcq(row.artifact_content)
    ELSE IF artifact_type = "text" THEN TextArtifact(StrOf(row.artifact_content))
    ELSE AudioArtifact("wav")

\* CSVParser._create_artifact
_create_artifact(row, idx) ==
    [artifact_id |-> <<row.submission_id, row.artifact_type, idx>>,
     artifact_type |-> row.artifact_type,
     content |-> _parse_content(row, row.artifact_type),
     metadata |-> <<>>]

\* the rows of one submission_id, in file order (df.groupby)
RowsOf(rows, submission_id) ==
    SelectSeq(rows, LAMBDA r : r.submission_id = submission_id)

\* CSVParser._create_submission
_create_submission(rows) ==
    [submission_id |-> rows[1].submission_id,
     student_id |-> rows[1].student_id,
     batch_id |-> rows[1].batch_id,
     artifacts |-> [k \in 1..Len(rows) |-> _create_artifact(rows[k], k - 1)]]

\* CSVParser._parse_known_schema: ValueError from _validate_known_structure,
\* or one Submission per submission_id, in the sorted order of groupby
_parse_known_schema(rows, sorted_ids) ==
    IF InvalidArtifactTypes(rows) # {}
    THEN [raised |-> TRUE, error |-> "ValueError", submissions |-> <<>>]
    ELSE LET present == SelectSeq(sorted_ids,
                                  LAMBDA id : RowsOf(rows, id) # <<>>)
         IN  [raised |-> FALSE, error |-> None,
              submissions |-> [k \in 1..Len(present) |->
                                  _create_submission(RowsOf(rows, present[k]))]]

\* The columns _parse_dynamic recognizes
IsMcqCol(col) == col \in {"1. Question"}
IsWritingCol(col) == col \in {"Writing prompt"}
IsSpeakingCol(col) == col \in {"Speaking prompt"}
IsListeningCol(col) == col \in {"Listening prompt"}

\* the columns of a sequence that satisfy a test, in order
ColsOf(columns, Test(_)) == SelectSeq(columns, Test)

\* audio_url of a speaking or listening cell: the cell when it is a URL,
\* else the first URL found in the row, else None
AudioUrl(row_dict, columns, scol) ==
    IF row_dict[scol] = "http://a/b.mp3" THEN row_dict[scol]
    ELSE IF \E k \in 1..Len(columns) : row_dict[columns[k]] = "http://a/b.mp3"
    THEN "http://a/b.mp3" ELSE None

\* _parse_dynamic, the artifacts of one row before the fallback: an MCQ
\* artifact per question column, a TEXT artifact per writing column, an AUDIO
\* artifact per speaking and per listening column
RecognizedArtifacts(submission_id, idx, columns, row_dict) ==
    LET mcq_cols == ColsOf(columns, IsMcqCol)
        writing_cols == ColsOf(columns, IsWritingCol)
        audio_cols == ColsOf(columns, IsSpeakingCol) \o ColsOf(columns, IsListeningCol)
        mcqs == [k \in 1..Len(mcq_cols) |->
                    [artifact_id |-> <<submission_id, "mcq", mcq_cols[k]>>,
                     artifact_type |-> "mcq",
                     content |->
                        [answers |->
                            <<[question_id |-> mcq_cols[k],
                               selected_option |->
                                   IF row_dict[mcq_cols[k]] # None
                                   THEN StrOf(row_dict[mcq_cols[k]]) ELSE "",
                               correct_option |-> None,
                               is_correct |-> "False"]>>,
                         total_questions |-> 1,
                         correct_answers |-> 0,
                         score_percentage |-> 0],
                     metadata |-> <<"question_col", mcq_cols[k]>>]]
        texts == [k \in 1..Len(writing_cols) |->
                    [artifact_id |-> <<submission_id, "text", writing_cols[k]>>,
                     artifact_type |-> "text",
                     content |-> TextArtifact(
                         StrOf(IF row_dict[writing_cols[k]] = None THEN ""
                               ELSE row_dict[writing_cols[k]])),
                     metadata |-> <<"question_col", writing_cols[k]>>]]
        audios == [k \in 1..Len(audio_cols) |->
                    [artifact_id |-> <<submission_id, "audio", audio_cols[k]>>,
                     artifact_type |-> "audio",
                     content |-> AudioArtifact(
                         IF AudioUrl(row_dict, columns, audio_cols[k]) # None
                         THEN "mp3" ELSE "wav"),
                     metadata |-> <<"question_col", audio_cols[k]>>]]
    IN  mcqs \o texts \o audios

\* the artifacts of one row with step 4 (`if not artifacts:`) left out
DynamicArtifactsNoFallback(submission_id, idx, columns, row_dict) ==
    RecognizedArtifacts(submission_id, idx, columns, row_dict)

\* _parse_dynamic, the artifacts of one row: the recognized ones, and when
\* there are none the whole row as one TEXT artifact
DynamicArtifacts(submission_id, idx, columns, row_dict) ==
    LET artifacts == RecognizedArtifacts(submission_id, idx, columns, row_dict)
    IN  IF artifacts = <<>>
        THEN <<[artifact_id |-> <<submission_id, "dynamic", idx>>,
                artifact_type |-> "text",
                content |-> TextArtifact(JsonDumps(row_dict)),
                metadata |-> <<"source", "dynamic_fallback">>]>>
        ELSE artifacts

\* CSVParser._parse_dynamic: one Submission per row
_parse_dynamic(columns, rows) ==
    [k \in 1..Len(rows) |->
        LET row_dict == rows[k]
            submission_id == <<"uuid4", k - 1>>
        IN  [submission_id |-> submission_id,
             student_id |-> <<"student", k - 1>>,
             batch_id |-> "dynamic_batch",
             artifacts |-> DynamicArtifacts(submission_id, k - 1, columns, row_dict)]]

\* ------------------------------- services/orchestrator/task_orchestrator.py
EmptyRouting == [ace_weight_mapping |-> <<>>]

\* Orchestrator.generate_tasks: one ProcessingTask per artifact, in order
generate_tasks(submission) ==
    [i \in 1..Len(submission.artifacts) |->
        LET artifact == submission.artifacts[i]
        IN  [task_id |-> <<submission.submission_id, artifact.artifact_id>>,
             submission_id |-> submission.submission_id,
             batch_id |-> submission.batch_id,
             student_id |-> submission.student_id,
             artifact_id |-> artifact.artifact_id,
             artifact_type |-> artifact.artifact_type,
             artifact_payload |-> artifact.content,
             routing_config |-> EmptyRouting,
             retry_count |-> InitialRetryCount,
             max_retries |-> DefaultMaxRetries]]

\* The body of the for-loop of Orchestrator.execute_tasks with a retry loop
\* added: a failed task whose retry_count is below max_retries is run again.
execute_tasks_iteration_retrying(st, outcome) ==
    LET task == st.tasks[st.ti]
    IN  IF outcome.raised /\ task.retry_count < task.max_retries
        THEN [st EXCEPT !.tasks[st.ti].retry_count = @ + 1,
                        !.status[st.ti] = "PENDING"]
        ELSE [st EXCEPT !.completed = Append(@, execute(task, outcome)),
                        !.status[st.ti] =
                            IF outcome.raised THEN "FAILED" ELSE "COMPLETED",
                        !.ti = @ + 1]

\* The body of the for-loop of Orchestrator.execute_tasks for the task at ti:
\* result = processor.execute(task); completed.append(result); an exception
\* leaving execute is logged and the task contributes nothing.
execute_tasks_iteration(st, outcome) ==
    LET task == st.tasks[st.ti]
        result == execute(task, outcome)
    IN  [st EXCEPT !.completed = IF result.kind = "CompletedArtifact"
                                 THEN Append(@, result) ELSE @,
                   !.status[st.ti] =
                       IF outcome.raised THEN "FAILED" ELSE "COMPLETED",
                   !.ti = @ + 1]

\* ---------------------------- services/orchestrator/completion_service.py
\* `x or "UNKNOWN"`: None and the empty string are falsy
OrDefault(x, default) == IF x = None \/ x = "" THEN default ELSE x

\* CompletionService.finalize_submission: raises ValueError on an empty list,
\* else builds the SubmissionResult from the first artifact's identity.
finalize_submission(artifacts) ==
    IF artifacts = <<>>
    THEN [raised |-> TRUE,
          error |-> "No artifacts provided to completion service."]
    ELSE [raised |-> FALSE,
          submission_id |-> artifacts[1].submission_id,
          student_id |-> OrDefault(artifacts[1].student_id, "UNKNOWN_STUDENT"),
          batch_id |-> OrDefault(artifacts[1].batch_id, "UNKNOWN_BATCH"),
          artifact_results |-> MapSeq(artifacts, LAMBDA c : c.artifact_result)]

\* CompletionService.upload_submission, local mode: the file
\* local_s3/results/{batch_id}_{submission_id}.json is written (overwritten
\* when it exists).  The store is the directory: a sequence of files.
ResultPath(submission) == <<submission.batch_id, submission.submission_id>>

upload_submission(files, submission) ==
    IF \E k \in 1..Len(files) : files[k].path = ResultPath(submission)
    THEN [k \in 1..Len(files) |->
            IF files[k].path = ResultPath(submission)
            THEN [path |-> ResultPath(submission), data |-> submission]
            ELSE files[k]]
    ELSE Append(files, [path |-> ResultPath(submission), data |-> submission])

\* ------------------------------- services/aggregator/result_collector.py
\* ResultCollector.collect_results, local mode: every file of the directory
\* whose name starts with "{batch_id}_", in the directory's listing order.
collect_results(files, batch_id) ==
    LET mine == SelectSeq(files, LAMBDA f : f.path[1] = batch_id)
    IN  MapSeq(mine, LAMBDA f : f.data)

\* --------- completion_service.py, result_collector.py: names as strings
\* A string is a sequence of characters and fixed pieces.
\* f"local_s3/results/{batch_id}_{submission_id}.json", without the directory
LocalFileName(batch_id, submission_id) ==
    batch_id \o <<"_">> \o submission_id \o <<".json">>

\* f"batches/{batch_id}/submissions/{submission_id}.json"
ObjectKey(batch_id, submission_id) ==
    <<"batches/">> \o batch_id \o <<"/submissions/">> \o submission_id \o <<".json">>

\* str.startswith
startswith(name, prefix) ==
    Len(prefix) <= Len(name) /\ SubSeq(name, 1, Len(prefix)) = prefix

\* str.endswith(".json")
endswith_json(name) == name # <<>> /\ name[Len(name)] = ".json"

StoredName(env, submission) ==
    IF env = "local" THEN LocalFileName(submission.batch_id, submission.submission_id)
    ELSE ObjectKey(submission.batch_id, submission.submission_id)

\* CompletionService.upload_submission on the stored files: open(path, "w")
\* and put_object both replace what the name held
upload_submission_named(env, stored, submission) ==
    {f \in stored : f.name # StoredName(env, submission)}
    \cup {[name |-> StoredName(env, submission), data |-> submission]}

\* ResultCollector.collect_results: local mode takes every *.json file whose
\* name starts with f"{batch_id}_", object-store mode every *.json key under
\* the prefix f"batches/{batch_id}/submissions/"; the results are returned in
\* listing order, kept here as a set
collect_results_named(env, stored, batch_id) ==
    IF env = "local"
    THEN {f.data : f \in {g \in stored : endswith_json(g.name)
                                          /\ startswith(g.name, batch_id \o <<"_">>)}}
    ELSE {f.data : f \in {g \in stored :
              endswith_json(g.name)
              /\ startswith(g.name, <<"batches/">> \o batch_id \o <<"/submissions/">>)}}

\* ------------------------------- services/aggregator/score_aggregator.py
\* round(x, 2) of the float x = n / d, in hundredths.  When n / d lies exactly
\* half-way between two hundredths the float that the source rounds lies a
\* rounding error above or below the half-way point, and the error depends on
\* the order in which the sums were accumulated: `up` is the side it falls on.
IsTie(n, d) == 2 * (n % d) = d
Round2(n, d, up) ==
    IF 2 * (n % d) > d \/ (IsTie(n, d) /\ up) THEN (n \div d) + 1 ELSE n \div d

Roundings == {"analysis", "communication", "evaluation", "overall"}
RoundUps == [Roundings -> BOOLEAN]
NoRounding == [r \in Roundings |-> FALSE]

\* weighted_sums[dimension] after the loop over submission.artifact_results
WeightedSum(artifact_results, dimension) ==
    SumSeq(MapSeq(artifact_results, LAMBDA a :
        SumSeq(MapSeq(a.ace_scores, LAMBDA s :
            IF s.dimension = dimension
            THEN s.score * artifact_weights[a.artifact_type] ELSE 0))))

\* total_weight with only the results that have scores counted
TotalWeightScored(artifact_results) ==
    LET total == SumSeq(MapSeq(artifact_results, LAMBDA a :
                     IF a.ace_scores = <<>> THEN 0 ELSE artifact_weights[a.artifact_type]))
    IN  IF total = 0 THEN 100 ELSE total

\* total_weight with every configured artifact type counted, present or not
TotalWeightConfigured(artifact_results) ==
    artifact_weights["mcq"] + artifact_weights["text"] + artifact_weights["audio"]

\* total_weight after the loop; `if total_weight == 0: total_weight = 1.0`
TotalWeight(artifact_results) ==
    LET total == SumSeq(MapSeq(artifact_results,
                               LAMBDA a : artifact_weights[a.artifact_type]))
    IN  IF total = 0 THEN 100 ELSE total

\* overall_score before round(): the rounded dimension scores (hundredths)
\* times the ACE weights (hundredths), in units of 1/10000 point
OverallUnrounded(analysis, communication, evaluation) ==
    analysis * analysis_weight + communication * communication_weight
    + evaluation * evaluation_weight

\* `overall_score >= self.ace_config.passing_score`: the comparison reads the
\* unrounded overall_score
ThresholdMet(overall_unrounded, threshold) ==
    overall_unrounded >= threshold * 100

\* StudentReport field constraint Field(0.0, ge=0, le=100)
InRange(score) == ScoreFloor <= score /\ score <= ScoreCeiling

\* _empty_report with the StudentReport constructor failing: the call raises
_empty_report_raising(submission) ==
    [raised |-> TRUE, submission_id |-> submission.submission_id]

\* ScoreAggregator._empty_report
_empty_report(submission) ==
    [raised |-> FALSE,
     student_id |-> submission.student_id,
     submission_id |-> submission.submission_id,
     batch_id |-> submission.batch_id,
     artifact_types |-> {},
     analysis_score |-> 0, communication_score |-> 0, evaluation_score |-> 0,
     overall_score |-> 0,
     passed |-> FALSE, excellence_achieved |-> FALSE]

\* ScoreAggregator._aggregate_single_submission; raised = the StudentReport
\* constructor rejected a score outside [0, 100] (pydantic ValidationError)
_aggregate_single_submission(submission, up) ==
    IF submission.artifact_results = <<>> THEN _empty_report(submission)
    ELSE
    LET results == submission.artifact_results
        total_weight == TotalWeight(results)
        analysis_score ==
            Round2(WeightedSum(results, "analysis"), total_weight, up["analysis"])
        communication_score ==
            Round2(WeightedSum(results, "communication"), total_weight,
                   up["communication"])
        evaluation_score ==
            Round2(WeightedSum(results, "evaluation"), total_weight,
                   up["evaluation"])
        overall_score ==
            OverallUnrounded(analysis_score, communication_score, evaluation_score)
        overall_rounded == Round2(overall_score, 100, up["overall"])
    IN  IF ~(InRange(analysis_score) /\ InRange(communication_score)
             /\ InRange(evaluation_score) /\ InRange(overall_rounded))
        THEN [raised |-> TRUE, submission_id |-> submission.submission_id]
        ELSE [raised |-> FALSE,
              student_id |-> submission.student_id,
              submission_id |-> submission.submission_id,
              batch_id |-> submission.batch_id,
              artifact_types |-> {results[k].artifact_type : k \in 1..Len(results)},
              analysis_score |-> analysis_score,
              communication_score |-> communication_score,
              evaluation_score |-> evaluation_score,
              overall_score |-> overall_rounded,
              passed |-> ThresholdMet(overall_score, passing_score),
              excellence_achieved |->
                  ThresholdMet(overall_score, excellence_threshold)]

\* The `up` choices that matter for a submission: a side is chosen only where
\* the value to round lies exactly half-way.
TieChoices(submission) ==
    IF submission.artifact_results = <<>> THEN {NoRounding}
    ELSE
    LET results == submission.artifact_results
        total_weight == TotalWeight(results)
    IN  {up \in RoundUps :
            /\ \A d \in {"analysis", "communication", "evaluation"} :
                  up[d] => IsTie(WeightedSum(results, d), total_weight)
            /\ up["overall"] =>
                  IsTie(OverallUnrounded(
                            Round2(WeightedSum(results, "analysis"), total_weight,
                                   up["analysis"]),
                            Round2(WeightedSum(results, "communication"),
                                   total_weight, up["communication"]),
                            Round2(WeightedSum(results, "evaluation"), total_weight,
                                   up["evaluation"])), 100)}

\* the rounding sides of the submissions of one aggregate call, in order
RECURSIVE TieChoiceSeqs(_)
TieChoiceSeqs(submissions_) ==
    IF submissions_ = <<>> THEN {<<>>}
    ELSE {<<up>> \o rest : up \in TieChoices(Head(submissions_)),
                           rest \in TieChoiceSeqs(Tail(submissions_))}

\* ScoreAggregator.aggregate: one report per submission whose aggregation did
\* not raise; a raising submission is logged and left out.  ups[k] is the
\* rounding side choice of the k-th submission.
aggregate(submissions_, ups) ==
    LET attempts == [k \in 1..Len(submissions_) |->
                        _aggregate_single_submission(submissions_[k], ups[k])]
    IN  SelectSeq(attempts, LAMBDA r : ~r.raised)

\* ------------------------------------------ services/interpreter (router)
NoTask == [task_id |-> None]
NoRoutingConfig == [origin |-> None]

\* ConfigLoader._get_default_routing_config: the hardcoded per-type default
\* (weights 0.4, 0.3, 0.3)
_get_default_routing_config(artifact_type) ==
    [origin |-> "type_default",
     artifact_type |-> artifact_type,
     ace_weight_mapping |-> <<40, 30, 30>>]

\* the RoutingConfig an institution's stored configuration holds for a type
InstitutionRoutingConfig(artifact_type) ==
    [origin |-> "institution",
     artifact_type |-> artifact_type,
     ace_weight_mapping |-> <<50, 25, 25>>]

\* ConfigLoader.get_routing_config: the institution's config for the type,
\* else the hardcoded default; it never returns None.  env.institution is
\* what get_institution_config returns: found or not, and the types its
\* routing_configs holds.
get_routing_config(env, institution_id, artifact_type) ==
    IF ~env.institution.found THEN _get_default_routing_config(artifact_type)
    ELSE IF artifact_type \in env.institution.types
    THEN InstitutionRoutingConfig(artifact_type)
    ELSE _get_default_routing_config(artifact_type)

\* ConfigLoader.get_default_institution_config().routing_configs.get(type)
default_institution_routing_config(artifact_type) ==
    [origin |-> "default_institution",
     artifact_type |-> artifact_type,
     ace_weight_mapping |-> <<40, 30, 30>>]

\* ArtifactRouter._get_queue_url: getattr(self.aws_config, "<type>_queue_url",
\* None); env.queues are the types whose attribute exists and is set
_get_queue_url(env, artifact_type) ==
    IF artifact_type \in env.queues THEN <<"queue", artifact_type>> ELSE None

\* ArtifactRouter._prepare_artifact_payload
_prepare_artifact_payload(artifact, submission) ==
    [artifact_id |-> artifact.artifact_id,
     artifact_type |-> artifact.artifact_type,
     content |-> artifact.content,
     submission_metadata |->
        [submission_id |-> submission.submission_id,
         batch_id |-> submission.batch_id,
         student_id |-> submission.student_id,
         institution_id |-> submission.institution_id]]

\* ProcessingTask(...) without student_id and batch_id: the two fields take
\* their default None
ProcessingTaskWithoutIdentity(task_id, submission_id, artifact_id, artifact_type, artifact_payload, routing_config) ==
    [task_id |-> task_id,
     submission_id |-> submission_id,
     batch_id |-> None,
     student_id |-> None,
     artifact_id |-> artifact_id,
     artifact_type |-> artifact_type,
     artifact_payload |-> artifact_payload,
     routing_config |-> routing_config,
     retry_count |-> InitialRetryCount,
     max_retries |-> DefaultMaxRetries]

\* ArtifactRouter._route_artifact: the task, or NoTask where it returns None
_route_artifact(env, artifact, submission, institution_id) ==
    LET first == get_routing_config(env, institution_id, artifact.artifact_type)
        routing_config ==
            IF first = NoRoutingConfig
            THEN default_institution_routing_config(artifact.artifact_type)
            ELSE first
        queue_url == _get_queue_url(env, artifact.artifact_type)
    IN  IF routing_config = NoRoutingConfig THEN NoTask
        ELSE IF queue_url = None THEN NoTask
        ELSE ProcessingTaskWithoutIdentity(
                 <<"uuid4", artifact.artifact_id>>,
                 submission.submission_id,
                 artifact.artifact_id,
                 artifact.artifact_type,
                 _prepare_artifact_payload(artifact, submission),
                 routing_config)

\* ArtifactRouter.route_submission: `if task: tasks.append(task)`
route_submission(env, submission) ==
    LET institution_id == OrDefault(submission.institution_id, "default")
        routed == [k \in 1..Len(submission.artifacts) |->
                      _route_artifact(env, submission.artifacts[k], submission,
                                      institution_id)]
    IN  SelectSeq(routed, LAMBDA task : task # NoTask)

\* Orchestrator.create_and_execute_task called for every artifact of a
\* submission: the ProcessingTask objects it constructs
create_and_execute_tasks(submission) ==
    [k \in 1..Len(submission.artifacts) |->
        ProcessingTaskWithoutIdentity(
            <<"uuid4", submission.artifacts[k].artifact_id>>,
            submission.submission_id,
            submission.artifacts[k].artifact_id,
            submission.artifacts[k].artifact_type,
            submission.artifacts[k].content,
            EmptyRouting)]

\* -------------------------------- services/aggregator/report_generator.py
\* the summary of the early return for an empty list
EmptyBatchSummary ==
    [raised |-> FALSE, total_students |-> 0, average_overall |-> 0,
     average_analysis |-> 0, average_communication |-> 0,
     average_evaluation |-> 0, pass_rate |-> 0, excellence_rate |-> 0]

SummaryRoundings ==
    {"overall", "analysis", "communication", "evaluation", "pass", "excellence"}

\* passes += 1 if passed else 0
CountFlag(flags) == SumSeq(MapSeq(flags, LAMBDA f : IF f THEN 1 ELSE 0))

\* the summary for a non-empty list: round(mean(values), 2) and
\* round((count / total_students) * 100.0, 2), in hundredths; up[r] says
\* which way round() goes when the float lies half-way between two
\* hundredths
BatchSummaryOf(student_reports, up) ==
    LET total_students == Len(student_reports)
        totals == SumSeq(MapSeq(student_reports, LAMBDA s : s.overall_score))
        analysis_vals == SumSeq(MapSeq(student_reports, LAMBDA s : s.analysis_score))
        communication_vals ==
            SumSeq(MapSeq(student_reports, LAMBDA s : s.communication_score))
        evaluation_vals == SumSeq(MapSeq(student_reports, LAMBDA s : s.evaluation_score))
        passes == CountFlag(MapSeq(student_reports, LAMBDA s : s.passed))
        excels == CountFlag(MapSeq(student_reports, LAMBDA s : s.excellence_achieved))
    IN  [raised |-> FALSE,
         total_students |-> total_students,
         average_overall |-> Round2(totals, total_students, up["overall"]),
         average_analysis |-> Round2(analysis_vals, total_students, up["analysis"]),
         average_communication |->
             Round2(communication_vals, total_students, up["communication"]),
         average_evaluation |->
             Round2(evaluation_vals, total_students, up["evaluation"]),
         pass_rate |-> Round2(passes * 10000, total_students, up["pass"]),
         excellence_rate |-> Round2(excels * 10000, total_students, up["excellence"])]

\* _compute_batch_summary without the guards for the empty list: mean([])
\* raises StatisticsError
_compute_batch_summary_unguarded(student_reports, up) ==
    IF Len(student_reports) = 0
    THEN [EmptyBatchSummary EXCEPT !.raised = TRUE]
    ELSE BatchSummaryOf(student_reports, up)

\* ReportGenerator._compute_batch_summary
_compute_batch_summary(student_reports, up) ==
    IF student_reports = <<>>
    THEN EmptyBatchSummary
    ELSE BatchSummaryOf(student_reports, up)

\* --------------------------------- services/interpreter/config_loader.py
\* cache_key = f"institution_{institution_id}"
CacheKey(institution_id) == <<"institution_", institution_id>>

\* an entry of _config_cache, or that the key is not in the dict
Cached(version, at) == [cached |-> TRUE, version |-> version, at |-> at]
NotCached == [cached |-> FALSE, version |-> 0, at |-> 0]

\* what _load_from_s3 and _load_from_dynamodb come to in one lookup: a
\* config (with its version), nothing, or an exception
LoadedConfig(version) == [kind |-> "config", version |-> version]
NothingLoaded == [kind |-> "none", version |-> 0]
LoadError == [kind |-> "error", version |-> 0]

\* ConfigLoader.get_institution_config: the cached object on a hit; else
\* the loaded config, cached; None (not cached) when nothing was found or
\* the load raised
get_institution_config(cache, institution_id, loaded, now) ==
    IF cache[CacheKey(institution_id)].cached
    THEN [cache |-> cache, found |-> TRUE,
          object |-> cache[CacheKey(institution_id)]]
    ELSE IF loaded.kind = "config"
    THEN [cache |-> [cache EXCEPT ![CacheKey(institution_id)] = Cached(loaded.version, now)],
          found |-> TRUE, object |-> Cached(loaded.version, now)]
    ELSE [cache |-> cache, found |-> FALSE, object |-> NotCached]

\* save_institution_config that leaves the cache entry in place
save_institution_config_keeping(cache, institution_id, put_ok) ==
    [cache |-> cache, saved |-> put_ok]

\* ConfigLoader.save_institution_config: put_object, then the entry is
\* popped; an exception of put_object returns False before the pop
save_institution_config(cache, institution_id, put_ok) ==
    IF put_ok
    THEN [cache |-> [cache EXCEPT ![CacheKey(institution_id)] = NotCached],
          saved |-> TRUE]
    ELSE [cache |-> cache, saved |-> FALSE]

\* ConfigLoader.invalidate_cache: pop(key, None) for a key, clear() for
\* None or ""
invalidate_cache(cache, key) ==
    IF key # <<>>
    THEN [k \in DOMAIN cache |-> IF k = key THEN NotCached ELSE cache[k]]
    ELSE [k \in DOMAIN cache |-> NotCached]

\* ==================================================================== state
VARIABLES
    submissions,        \* run: the Submission list parse_csv returned
    pc,                 \* run: the statement the run is at
    si,                 \* run: index of the submission of the for-loop
    tasks,              \* execute_tasks: its argument
    ti,                 \* execute_tasks: index of the task of the for-loop
    status,             \* per task: execute not yet called, running, returned (process_task ended or raised)
    attempts,           \* per task: how many times processor.execute ran it
    outcomes,           \* per finished task: what its process_task did
    completed,          \* execute_tasks: the list it builds and returns
    submission_result,  \* run: the SubmissionResult of the current submission
    files,              \* local_s3/results: the stored SubmissionResult files
    student_reports,    \* process_batch: the StudentReport list
    error,              \* the exception that ended the run, or None
    \* ScoreAggregator._aggregate_single_submission applied to a loaded result
    agg_submission,     \* the SubmissionResult handed to the aggregator
    agg_up,             \* the rounding sides of the first aggregation
    agg_report,         \* the StudentReport (or the raised marker) it gave
    agg_permuted,       \* the same SubmissionResult, artifact_results permuted
    agg_report_permuted,\* the StudentReport of the permuted SubmissionResult
    \* BaseProcessor._calculate_overall_score applied to a score list
    sc_scores,          \* the ACEScore list
    sc_overall,         \* the value returned, or None before the call
    \* creation of one ACEScore
    ace_score,          \* the last ACEScore created and how, or None
    \* executions of MCQ tasks on parallel workers
    par_tasks,          \* the tasks handed to the workers
    par_pc,             \* per task: where its execution is
    par_frames,         \* the locals of the executions (answers, i, correct)
    par_results,        \* per task: the CompletedArtifact its execution returned
    par_reads,          \* per task: the state its execution has read
    par_writes,         \* per task: the state its execution has written
    par_overlapped,     \* some execution started while another was running
    \* MCQ answers from raw list to dimension scores
    mcq_raw,            \* the raw answer list (a CSV cell or a payload)
    mcq_path,           \* "parser" (parse_csv, generate_tasks) or "payload" (task built directly)
    mcq_method,         \* the evaluation_method of the routing configuration
    mcq_pc,             \* the step the normalize-then-score run is at
    mcq_parsed,         \* the MCQArtifact CSVParser._parse_mcq returned
    mcq_task,           \* the ProcessingTask
    mcq_built,          \* the MCQArtifact as _extract_mcq_artifact returned it
    mcq_artifact,       \* the same MCQArtifact object, as it is now
    mcq_eval,           \* the dict _evaluate_answers returned
    mcq_scores,     \* the three raw dimension scores
    \* CSVParser.parse_csv applied to one CSV file
    csv_input,          \* the decoded CSV: its columns and its rows
    csv_pc,             \* where parse_csv is: start, known, dynamic, returned, raised
    csv_submissions,    \* the Submission list parse_csv returned
    csv_error,      \* the exception parse_csv raised, or None
    \* tasks built from one submission, executed, finalized
    rt_submission,      \* the Submission
    rt_env,             \* the institution config stored for its institution_id, and the queue URLs of aws_config
    rt_builder,         \* what builds the tasks: route_submission, generate_tasks, create_and_execute_task
    rt_pc,              \* start, built, executed, finalized
    rt_tasks,           \* the ProcessingTask list
    rt_completed,       \* the CompletedArtifact list
    rt_result,      \* the SubmissionResult (or the raised marker) of finalize_submission
    \* TextProcessor on one TEXT task, with the evaluator in any condition
    tx_task,            \* the ProcessingTask
    tx_client,          \* whether AIClient.client was created
    tx_response,        \* what the evaluator call does: raises, or the content it returns
    tx_pc,              \* start, evaluate, evaluated, done
    tx_ai_result,       \* what evaluate_text_ace returned (or that it raised)
    tx_completed,   \* the CompletedArtifact execute returned
    \* ReportGenerator._compute_batch_summary on a list of StudentReports
    bs_reports,         \* the student_reports argument
    bs_pc,              \* start, done
    bs_summary,     \* the returned summary dict (or that the call raised)
    \* MCQProcessor on one task whose payload has any of the accepted shapes; MCQArtifact objects live in a heap
    ex_task,            \* the ProcessingTask; a typed payload is a reference into ex_heap
    ex_heap,            \* the MCQArtifact objects, by reference
    ex_given,           \* the typed payload as it was when the task was built
    ex_pc,              \* task, extracted, evaluated
    ex_extract,         \* what _extract_mcq_artifact returned: a reference, or that it raised
    ex_eval,        \* the evaluation_result dict
    \* a strategy's weights and overall score for any ace_weight_mapping
    aw_mapping,         \* routing_config's ace_weight_mapping, or that it is absent
    aw_raw,             \* the three raw dimension scores of the strategy
    aw_pc,              \* start, weighted, done
    aw_weights,         \* what _get_ace_weights returned
    aw_scores,          \* the ACEScore list
    aw_overall,     \* the artifact's overall_score
    \* AggregatorService.process_batch, step by step, with any of its export steps failing
    pb_collected,       \* how many SubmissionResults collect_results returned
    pb_exporter,        \* whether the CSVExporter object has the method process_batch calls
    pb_bucket,          \* whether aws_config.results_bucket is set
    pb_failing,         \* the steps that raise when they run
    pb_pc,              \* the statement process_batch is at
    pb_pdf,             \* the index of the student report whose PDF is next
    pb_ran,             \* the steps that ran to their end
    pb_logged,          \* the failures logged
    pb_returned,    \* what process_batch returned, or that it raised
    \* CompletionService.upload_submission and ResultCollector.collect_results on names built from the ids
    rc_env,             \* aws_config.env: local or aws
    rc_files,           \* the stored files: name and the SubmissionResult written last under it
    rc_requested,       \* the batch_id given to collect_results
    rc_collected,       \* the SubmissionResults collect_results returned
    rc_pc,          \* storing, collected
    \* ConfigLoader's cache under get_institution_config, save_institution_config and invalidate_cache
    cl_cache,           \* _config_cache: per cache key, the cached object and when it was cached
    cl_s3,              \* the version of configs/institutions/{id}.json in the bucket, 0 when there is none
    cl_clock,           \* how many operations were called
    cl_reset,           \* per institution, the time of the latest successful save or invalidation of its entry
    cl_last             \* the last operation, and what a lookup returned

runVars == <<submissions, pc, si, tasks, ti, status, attempts, outcomes, completed,
             submission_result, files, student_reports, error>>
aggVars == <<agg_submission, agg_up, agg_report, agg_permuted, agg_report_permuted>>
scoreVars == <<sc_scores, sc_overall>>
aceVars == <<ace_score>>
parVars == <<par_tasks, par_pc, par_frames, par_results, par_reads, par_writes,
             par_overlapped>>
mcqVars == <<mcq_raw, mcq_path, mcq_method, mcq_pc, mcq_parsed, mcq_task, mcq_built,
             mcq_artifact, mcq_eval, mcq_scores>>
csvVars == <<csv_input, csv_pc, csv_submissions, csv_error>>
routeVars == <<rt_submission, rt_env, rt_builder, rt_pc, rt_tasks, rt_completed, rt_result>>
textVars == <<tx_task, tx_client, tx_response, tx_pc, tx_ai_result, tx_completed>>
summaryVars == <<bs_reports, bs_pc, bs_summary>>
extractVars == <<ex_task, ex_heap, ex_given, ex_pc, ex_extract, ex_eval>>
weightVars == <<aw_mapping, aw_raw, aw_pc, aw_weights, aw_scores, aw_overall>>
batchVars == <<pb_collected, pb_exporter, pb_bucket, pb_failing, pb_pc, pb_pdf, pb_ran, pb_logged, pb_returned>>
collectVars == <<rc_env, rc_files, rc_requested, rc_collected, rc_pc>>
loaderVars == <<cl_cache, cl_s3, cl_clock, cl_reset, cl_last>>
nonRunVars == <<aggVars, scoreVars, aceVars, parVars, mcqVars, csvVars, routeVars, textVars, summaryVars, extractVars, weightVars, batchVars, collectVars, loaderVars>>

vars == <<runVars, aggVars, scoreVars, aceVars, parVars, mcqVars, csvVars, routeVars, textVars, summaryVars, extractVars, weightVars, batchVars, collectVars, loaderVars>>

\* ------------------------------------------------------------------ inputs
\* The dynamic parser emits a row's MCQ artifact first, then TEXT, then AUDIO
\* (csv_parser.py 291-407); the k-th artifact of a submission has this type.
ArtifactTypeOrder == <<"mcq", "text", "audio">>

SubmissionOf(k, n) ==
    [submission_id |-> <<"sub", k>>,
     student_id |-> <<"stu", k>>,
     batch_id |-> "batch1",
     artifacts |-> [a \in 1..n |->
        [artifact_id |-> <<"art", k, a>>,
         artifact_type |-> ArtifactTypeOrder[((a - 1) % 3) + 1],
         content |-> <<"content", k, a>>]]]

\* Submission lists: up to MaxSubmissions submissions of 0..MaxArtifacts
\* artifacts each (Submission.artifacts is a List[Artifact], empty allowed).
SubmissionLists ==
    {[k \in 1..Len(ns) |-> SubmissionOf(k, ns[k])] :
        ns \in SeqsUpTo(0..MaxArtifacts, MaxSubmissions)}

\* Task lists handed to execute_tasks directly: any artifact type, with or
\* without student/batch identity, and any retry_count / max_retries.
TaskShapes ==
    {[artifact_type |-> "mcq", student_id |-> "stu1", batch_id |-> "batch1",
      retry_count |-> 0, max_retries |-> 3],
     [artifact_type |-> "text", student_id |-> None, batch_id |-> None,
      retry_count |-> 3, max_retries |-> 3],
     [artifact_type |-> "audio", student_id |-> "stu1", batch_id |-> "batch1",
      retry_count |-> 5, max_retries |-> 0]}

TaskOf(i, shape) ==
    [task_id |-> <<"task", i>>,
     submission_id |-> <<"sub", 1>>,
     batch_id |-> shape.batch_id,
     student_id |-> shape.student_id,
     artifact_id |-> <<"art", 1, i>>,
     artifact_type |-> shape.artifact_type,
     artifact_payload |-> <<"content", 1, i>>,
     routing_config |-> EmptyRouting,
     retry_count |-> shape.retry_count,
     max_retries |-> shape.max_retries]

TaskLists ==
    {[i \in 1..Len(shapes) |-> TaskOf(i, shapes[i])] :
        shapes \in SeqsUpTo(TaskShapes, MaxTasks)}

NoResult == [raised |-> FALSE, submission_id |-> None]

\* ------------------------------------------------------------------- Init
\* The parts of the state a specification does not use stay as they start.
RunIdle ==
    /\ submissions = <<>>
    /\ pc = "idle"
    /\ si = 1
    /\ tasks = <<>>
    /\ ti = 1
    /\ status = <<>>
    /\ attempts = <<>>
    /\ outcomes = <<>>
    /\ completed = <<>>
    /\ submission_result = NoResult
    /\ files = <<>>
    /\ student_reports = <<>>
    /\ error = None

AggIdle ==
    /\ agg_submission = None
    /\ agg_up = NoRounding
    /\ agg_report = NoResult
    /\ agg_permuted = None
    /\ agg_report_permuted = NoResult

NotComputed == [computed |-> FALSE]
ScoreIdle ==
    /\ sc_scores = <<>>
    /\ sc_overall = NotComputed

NoScore == [origin |-> None]
AceIdle == ace_score = NoScore

ParIdle ==
    /\ par_tasks = <<>>
    /\ par_pc = <<>>
    /\ par_frames = <<>>
    /\ par_results = <<>>
    /\ par_reads = <<>>
    /\ par_writes = <<>>
    /\ par_overlapped = FALSE

NoContent == [kind |-> None, answers |-> <<>>]
NoArtifact == [built |-> FALSE]
NoEval == [evaluated |-> FALSE]
McqIdle ==
    /\ mcq_raw = NoContent
    /\ mcq_path = None
    /\ mcq_method = None
    /\ mcq_pc = "idle"
    /\ mcq_parsed = NoArtifact
    /\ mcq_task = NoTask
    /\ mcq_built = NoArtifact
    /\ mcq_artifact = NoArtifact
    /\ mcq_eval = NoEval
    /\ mcq_scores = <<>>

NoCsv == [kind |-> None]
CsvIdle ==
    /\ csv_input = NoCsv
    /\ csv_pc = "idle"
    /\ csv_submissions = <<>>
    /\ csv_error = None

RouteIdle ==
    /\ rt_submission = None
    /\ rt_env = None
    /\ rt_builder = None
    /\ rt_pc = "idle"
    /\ rt_tasks = <<>>
    /\ rt_completed = <<>>
    /\ rt_result = NoResult

NoResponse == [kind |-> None]
NoAiResult == [raised |-> FALSE, called |-> FALSE]
TextIdle ==
    /\ tx_task = NoTask
    /\ tx_client = FALSE
    /\ tx_response = NoResponse
    /\ tx_pc = "idle"
    /\ tx_ai_result = NoAiResult
    /\ tx_completed = NoResult

NoSummary == [raised |-> FALSE, total_students |-> -1]
SummaryIdle ==
    /\ bs_reports = <<>>
    /\ bs_pc = "idle"
    /\ bs_summary = NoSummary

NoExtract == [raised |-> FALSE, ref |-> 0]
ExtractIdle ==
    /\ ex_task = NoTask
    /\ ex_heap = <<>>
    /\ ex_given = NoArtifact
    /\ ex_pc = "idle"
    /\ ex_extract = NoExtract
    /\ ex_eval = NoEval

NoWeights == [den |-> 0, num |-> <<>>]
WeightIdle ==
    /\ aw_mapping = NoMapping
    /\ aw_raw = <<>>
    /\ aw_pc = "idle"
    /\ aw_weights = NoWeights
    /\ aw_scores = <<>>
    /\ aw_overall = Zero

BatchIdle ==
    /\ pb_collected = 0
    /\ pb_exporter = None
    /\ pb_bucket = FALSE
    /\ pb_failing = {}
    /\ pb_pc = "idle"
    /\ pb_pdf = 0
    /\ pb_ran = {}
    /\ pb_logged = {}
    /\ pb_returned = None

CollectIdle ==
    /\ rc_env = None
    /\ rc_files = {}
    /\ rc_requested = <<>>
    /\ rc_collected = {}
    /\ rc_pc = "idle"

NoOperation == [op |-> None]
LoaderIdle ==
    /\ cl_cache = <<>>
    /\ cl_s3 = <<>>
    /\ cl_clock = 0
    /\ cl_reset = <<>>
    /\ cl_last = NoOperation

Init ==
    /\ AggIdle /\ ScoreIdle /\ AceIdle /\ ParIdle /\ McqIdle /\ CsvIdle /\ RouteIdle /\ TextIdle /\ SummaryIdle /\ ExtractIdle /\ WeightIdle /\ BatchIdle /\ CollectIdle /\ LoaderIdle
    /\ submissions \in SubmissionLists
    /\ pc = "start"
    /\ si = 1
    /\ tasks = <<>>
    /\ ti = 1
    /\ status = <<>>
    /\ attempts = <<>>
    /\ outcomes = <<>>
    /\ completed = <<>>
    /\ submission_result = NoResult
    /\ files = <<>>
    /\ student_reports = <<>>
    /\ error = None

\* execute_tasks called on its own with any task list
InitExec ==
    /\ AggIdle /\ ScoreIdle /\ AceIdle /\ ParIdle /\ McqIdle /\ CsvIdle /\ RouteIdle /\ TextIdle /\ SummaryIdle /\ ExtractIdle /\ WeightIdle /\ BatchIdle /\ CollectIdle /\ LoaderIdle
    /\ submissions = <<>>
    /\ pc = "execute"
    /\ si = 1
    /\ tasks \in TaskLists
    /\ ti = 1
    /\ status = [i \in 1..Len(tasks) |-> "PENDING"]
    /\ attempts = [i \in 1..Len(tasks) |-> 0]
    /\ outcomes = <<>>
    /\ completed = <<>>
    /\ submission_result = NoResult
    /\ files = <<>>
    /\ student_reports = <<>>
    /\ error = None

\* ---------------------------------------------------------------- actions
\* run_end_to_end.run, lines 34-36: no submissions, return
RunStart ==
    /\ UNCHANGED nonRunVars
    /\ pc = "start"
    /\ pc' = IF submissions = <<>> THEN "done" ELSE "generate"
    /\ UNCHANGED <<submissions, si, tasks, ti, status, attempts, outcomes,
                   completed, submission_result, files, student_reports, error>>

\* run, line 47: tasks = orchestrator.generate_tasks(submission)
GenerateTasks ==
    /\ UNCHANGED nonRunVars
    /\ pc = "generate"
    /\ tasks' = generate_tasks(submissions[si])
    /\ ti' = 1
    /\ status' = [i \in 1..Len(tasks') |-> "PENDING"]
    /\ attempts' = [i \in 1..Len(tasks') |-> 0]
    /\ outcomes' = <<>>
    /\ completed' = <<>>
    /\ pc' = "execute"
    /\ UNCHANGED <<submissions, si, submission_result, files, student_reports,
                   error>>

\* execute_tasks, line 131: processor.execute(task) is entered for the task
StartTask ==
    /\ UNCHANGED nonRunVars
    /\ pc = "execute"
    /\ ti <= Len(tasks)
    /\ status[ti] = "PENDING"
    /\ status' = [status EXCEPT ![ti] = "RUNNING"]
    /\ attempts' = [attempts EXCEPT ![ti] = @ + 1]
    /\ UNCHANGED <<submissions, pc, si, tasks, ti, outcomes, completed,
                   submission_result, files, student_reports, error>>

\* execute_tasks, lines 130-134: processor.execute(task) returns (its strategy
\* having returned or raised) and the loop body ends
FinishTask ==
    /\ UNCHANGED nonRunVars
    /\ pc = "execute"
    /\ ti <= Len(tasks)
    /\ status[ti] = "RUNNING"
    /\ \E outcome \in StrategyOutcomes :
         LET st == execute_tasks_iteration(
                      [tasks |-> tasks, ti |-> ti, status |-> status,
                       completed |-> completed], outcome)
         IN  /\ tasks' = st.tasks
             /\ ti' = st.ti
             /\ status' = st.status
             /\ completed' = st.completed
             /\ outcomes' = [outcomes EXCEPT ![ti] = outcome]
                            @@ (ti :> outcome)
    /\ UNCHANGED <<submissions, pc, si, attempts, submission_result, files,
                   student_reports, error>>

\* execute_tasks with `return completed` indented into the for-loop: it returns
\* after the first iteration
ExecuteTasksReturnEarly ==
    /\ UNCHANGED nonRunVars
    /\ pc = "execute"
    /\ ti > 1 \/ tasks = <<>>
    /\ pc' = "finalize"
    /\ UNCHANGED <<submissions, si, tasks, ti, status, attempts, outcomes,
                   completed, submission_result, files, student_reports, error>>

\* execute_tasks, line 137: return completed
ExecuteTasksReturn ==
    /\ UNCHANGED nonRunVars
    /\ pc = "execute"
    /\ ti > Len(tasks)
    /\ pc' = "finalize"
    /\ UNCHANGED <<submissions, si, tasks, ti, status, attempts, outcomes,
                   completed, submission_result, files, student_reports, error>>

\* run, line 64: completion_service.finalize_submission(completed_artifacts);
\* its ValueError is not caught by run
FinalizeSubmission ==
    /\ UNCHANGED nonRunVars
    /\ pc = "finalize"
    /\ LET r == finalize_submission(completed)
       IN  IF r.raised
           THEN /\ pc' = "crashed"
                /\ error' = r.error
                /\ UNCHANGED submission_result
           ELSE /\ pc' = "upload"
                /\ submission_result' = r
                /\ UNCHANGED error
    /\ UNCHANGED <<submissions, si, tasks, ti, status, attempts, outcomes,
                   completed, files, student_reports>>

\* run, line 65: upload_submission, then the next submission or step 5
UploadSubmission ==
    /\ UNCHANGED nonRunVars
    /\ pc = "upload"
    /\ files' = upload_submission(files, submission_result)
    /\ si' = si + 1
    /\ pc' = IF si + 1 > Len(submissions) THEN "aggregate" ELSE "generate"
    /\ UNCHANGED <<submissions, tasks, ti, status, attempts, outcomes, completed,
                   submission_result, student_reports, error>>

\* run, lines 72-76: AggregatorService.process_batch(batch_id) for the batch of
\* the first submission: collect_results, then ScoreAggregator.aggregate
ProcessBatch ==
    /\ UNCHANGED nonRunVars
    /\ pc = "aggregate"
    /\ LET collected == collect_results(files, submissions[1].batch_id)
       IN  \E ups \in TieChoiceSeqs(collected) :
              student_reports' =
                  IF collected = <<>> THEN <<>> ELSE aggregate(collected, ups)
    /\ pc' = "done"
    /\ UNCHANGED <<submissions, si, tasks, ti, status, attempts, outcomes,
                   completed, submission_result, files, error>>

Next ==
    \/ RunStart
    \/ GenerateTasks
    \/ StartTask
    \/ FinishTask
    \/ ExecuteTasksReturn
    \/ FinalizeSubmission
    \/ UploadSubmission
    \/ ProcessBatch

Spec == Init /\ [][Next]_vars

NextExec ==
    \/ StartTask
    \/ FinishTask
    \/ ExecuteTasksReturn

SpecExec == InitExec /\ [][NextExec]_vars

\* ------------------------------------------------- the aggregator on its own
\* ArtifactResults as ResultCollector loads them from stored JSON: a type, and
\* three dimension scores (or none, for a failed artifact).
ScoredResult(k, artifact_type, scores) ==
    [artifact_id |-> <<"art", 1, k>>,
     artifact_type |-> artifact_type,
     ace_scores |-> [d \in 1..Len(scores) |->
                        [dimension |-> ACEDimension[d], score |-> scores[d],
                         weight |-> 0]],
     overall_score |-> Zero,
     feedback |-> <<>>,
     errors |-> <<>>]

ResultShapes ==
    {[artifact_type |-> "mcq", scores |-> <<9000, 9000, 9000>>],
     [artifact_type |-> "mcq", scores |-> <<5900, 5900, 5900>>],
     [artifact_type |-> "mcq", scores |-> <<>>],
     [artifact_type |-> "text", scores |-> <<6999, 7000, 7000>>],
     [artifact_type |-> "text", scores |-> <<7100, 7100, 7100>>],
     [artifact_type |-> "text", scores |-> <<>>],
     [artifact_type |-> "text", scores |-> <<50000, 0, 0 - 5000>>],
     [artifact_type |-> "audio", scores |-> <<3394, 3394, 3394>>],
     [artifact_type |-> "audio", scores |-> <<8999, 9000, 9001>>]}

LoadedSubmissionResults ==
    {[raised |-> FALSE,
      submission_id |-> <<"sub", 1>>,
      student_id |-> <<"stu", 1>>,
      batch_id |-> "batch1",
      artifact_results |->
          [k \in 1..Len(shapes) |->
              ScoredResult(k, shapes[k].artifact_type, shapes[k].scores)]] :
        shapes \in SeqsUpTo(ResultShapes, MaxResults)}

Orders(n) == {f \in [1..n -> 1..n] : \A i, j \in 1..n : f[i] = f[j] => i = j}

\* The float operations behind one dimension score: the terms added to
\* weighted_sums[dimension], in order, each the product of a score and a type
\* weight, and the weights added to total_weight, in order.
RECURSIVE DimensionTerms(_, _)
DimensionTerms(artifact_results, dimension) ==
    IF artifact_results = <<>> THEN <<>>
    ELSE LET a == Head(artifact_results)
             own == SelectSeq(a.ace_scores, LAMBDA s : s.dimension = dimension)
         IN  [k \in 1..Len(own) |->
                 <<own[k].score, artifact_weights[a.artifact_type]>>]
             \o DimensionTerms(Tail(artifact_results), dimension)

WeightTerms(artifact_results) ==
    [k \in 1..Len(artifact_results) |->
        artifact_weights[artifact_results[k].artifact_type]]

\* Float addition is commutative but not associative: a left-to-right sum
\* from 0.0 is unchanged by swapping its first two terms, and may change under
\* any other reordering.
SameFloatSum(s, t) ==
    \/ s = t
    \/ /\ Len(s) = Len(t)
       /\ Len(s) >= 2
       /\ s[1] = t[2]
       /\ s[2] = t[1]
       /\ \A k \in 3..Len(s) : s[k] = t[k]

SameFloatQuotient(results, others, dimension) ==
    /\ SameFloatSum(DimensionTerms(results, dimension),
                    DimensionTerms(others, dimension))
    /\ SameFloatSum(WeightTerms(results), WeightTerms(others))

InitAgg ==
    /\ RunIdle /\ ScoreIdle /\ AceIdle /\ ParIdle /\ McqIdle /\ CsvIdle /\ RouteIdle /\ TextIdle /\ SummaryIdle /\ ExtractIdle /\ WeightIdle /\ BatchIdle /\ CollectIdle /\ LoaderIdle
    /\ agg_submission \in LoadedSubmissionResults
    /\ agg_up = NoRounding
    /\ agg_report = NoResult
    /\ agg_permuted = None
    /\ agg_report_permuted = NoResult

\* ScoreAggregator._aggregate_single_submission(agg_submission)
AggregateSubmission ==
    /\ UNCHANGED <<runVars, scoreVars, aceVars, parVars, mcqVars, csvVars, routeVars, textVars, summaryVars, extractVars, weightVars, batchVars, collectVars, loaderVars>>
    /\ agg_report = NoResult
    /\ \E up \in TieChoices(agg_submission) :
          /\ agg_up' = up
          /\ agg_report' = _aggregate_single_submission(agg_submission, up)
    /\ UNCHANGED <<agg_submission, agg_permuted, agg_report_permuted>>

\* The same call on the same results in another order.  Where a dimension's
\* float quotient is the same as in the first call its rounding falls on the
\* same side, and so does the overall score's when the three dimension scores
\* are the same.
AggregatePermuted ==
    /\ UNCHANGED <<runVars, scoreVars, aceVars, parVars, mcqVars, csvVars, routeVars, textVars, summaryVars, extractVars, weightVars, batchVars, collectVars, loaderVars>>
    /\ agg_report # NoResult
    /\ agg_report_permuted = NoResult
    /\ \E perm \in Orders(Len(agg_submission.artifact_results)) :
          LET permuted ==
                [agg_submission EXCEPT !.artifact_results =
                    [k \in 1..Len(agg_submission.artifact_results) |->
                        agg_submission.artifact_results[perm[k]]]]
          IN  \E up \in TieChoices(permuted) :
                LET report == _aggregate_single_submission(permuted, up)
                IN  /\ \A d \in {"analysis", "communication", "evaluation"} :
                          SameFloatQuotient(permuted.artifact_results,
                                            agg_submission.artifact_results, d)
                          => up[d] = agg_up[d]
                    /\ (\A d \in {"analysis", "communication", "evaluation"} :
                            up[d] = agg_up[d])
                          => up["overall"] = agg_up["overall"]
                    /\ agg_permuted' = permuted
                    /\ agg_report_permuted' = report
    /\ UNCHANGED <<agg_submission, agg_up, agg_report>>

NextAgg ==
    \/ AggregateSubmission
    \/ AggregatePermuted

SpecAgg == InitAgg /\ [][NextAgg]_vars

\* ------------------------------------- _calculate_overall_score on its own
ScoreEntries ==
    {ACEScore("analysis", score, weight) :
        score \in {0, 6000, 8000, 10000}, weight \in {0 - 40, 0, 40, 60}}

InitOverall ==
    /\ RunIdle /\ AggIdle /\ AceIdle /\ ParIdle /\ McqIdle /\ CsvIdle /\ RouteIdle /\ TextIdle /\ SummaryIdle /\ ExtractIdle /\ WeightIdle /\ BatchIdle /\ CollectIdle /\ LoaderIdle
    /\ sc_scores \in SeqsUpTo(ScoreEntries, MaxScores)
    /\ sc_overall = NotComputed

\* overall = self._calculate_overall_score(ace_scores)
CalculateOverall ==
    /\ UNCHANGED <<runVars, aggVars, aceVars, parVars, mcqVars, csvVars, routeVars, textVars, summaryVars, extractVars, weightVars, batchVars, collectVars, loaderVars>>
    /\ sc_overall = NotComputed
    /\ sc_overall' = _calculate_overall_score(sc_scores)
    /\ UNCHANGED sc_scores

NextOverall == CalculateOverall

SpecOverall == InitOverall /\ [][NextOverall]_vars

\* -------------------------------------------- the two origins of an ACEScore
RawScores == {0 - 5000, 0 - 1, 0, 1, 5000, 9999, 10000, 10001, 50000}
RawWeights == {0, 40, 100}

InitAce ==
    /\ RunIdle /\ AggIdle /\ ScoreIdle /\ ParIdle /\ McqIdle /\ CsvIdle /\ RouteIdle /\ TextIdle /\ SummaryIdle /\ ExtractIdle /\ WeightIdle /\ BatchIdle /\ CollectIdle /\ LoaderIdle
    /\ ace_score = NoScore

\* a strategy builds a score: BaseProcessor._create_ace_score
CreateAceScore ==
    /\ UNCHANGED <<runVars, aggVars, scoreVars, parVars, mcqVars, csvVars, routeVars, textVars, summaryVars, extractVars, weightVars, batchVars, collectVars, loaderVars>>
    /\ \E d \in 1..3, raw \in RawScores, weight \in RawWeights :
          ace_score' = [origin |-> "strategy", raw |-> raw,
                        value |-> _create_ace_score(ACEDimension[d], raw, weight)]

\* ResultCollector.collect_results: SubmissionResult(**data) builds every
\* ACEScore of a stored result from its JSON fields
LoadAceScore ==
    /\ UNCHANGED <<runVars, aggVars, scoreVars, parVars, mcqVars, csvVars, routeVars, textVars, summaryVars, extractVars, weightVars, batchVars, collectVars, loaderVars>>
    /\ \E d \in 1..3, raw \in RawScores, weight \in RawWeights :
          ace_score' = [origin |-> "loaded", raw |-> raw,
                        value |-> ACEScore(ACEDimension[d], raw, weight)]

NextAce ==
    \/ CreateAceScore
    \/ LoadAceScore

SpecAce == InitAce /\ [][NextAce]_vars

\* ----------------------------------------- MCQ tasks on parallel workers
\* Each worker runs BaseProcessor.execute on one task; the steps of the
\* executions interleave.  The locals of an execution (the MCQArtifact that
\* _extract_mcq_artifact built, the loop position and `correct`) live in the
\* frame of its call.
Answer(q, selected_option, correct_option, is_correct) ==
    [question_id |-> q, selected_option |-> selected_option,
     correct_option |-> correct_option, is_correct |-> is_correct]

McqPayloads ==
    {[answers |-> <<>>],
     [answers |-> <<Answer("q1", " a ", "A", None)>>],
     [answers |-> <<Answer("q1", "A", "B", None), Answer("q2", "b", "B", None)>>],
     [answers |-> <<Answer("q1", "A", "B", "True"), Answer("q2", "B", "B", "False")>>]}

RoutingConfigs == {EmptyRouting, [ace_weight_mapping |-> <<2, 1, 1>>]}

ParTaskOf(i, payload, routing) ==
    [task_id |-> <<"task", i>>,
     submission_id |-> <<"sub", 1>>,
     batch_id |-> "batch1",
     student_id |-> <<"stu", 1>>,
     artifact_id |-> <<"art", 1, i>>,
     artifact_type |-> "mcq",
     artifact_payload |-> payload,
     routing_config |-> routing,
     retry_count |-> InitialRetryCount,
     max_retries |-> DefaultMaxRetries]

ParTaskLists ==
    UNION {{[i \in 1..n |-> ParTaskOf(i, payloads[i], routings[i])] :
                payloads \in [1..n -> McqPayloads],
                routings \in [1..n -> RoutingConfigs]} : n \in 1..MaxParTasks}

\* the frame an execution keeps its locals in: its own
FrameShared(t) == 1
FrameOf(t) == t

EmptyFrame == [answers |-> <<>>, i |-> 1, correct |-> 0]

InitPar ==
    /\ RunIdle /\ AggIdle /\ ScoreIdle /\ AceIdle /\ McqIdle /\ CsvIdle /\ RouteIdle /\ TextIdle /\ SummaryIdle /\ ExtractIdle /\ WeightIdle /\ BatchIdle /\ CollectIdle /\ LoaderIdle
    /\ par_tasks \in ParTaskLists
    /\ par_pc = [t \in 1..Len(par_tasks) |-> "ready"]
    /\ par_frames = [t \in 1..Len(par_tasks) |-> EmptyFrame]
    /\ par_results = [t \in 1..Len(par_tasks) |-> NoResult]
    /\ par_reads = [t \in 1..Len(par_tasks) |-> {}]
    /\ par_writes = [t \in 1..Len(par_tasks) |-> {}]
    /\ par_overlapped = FALSE

Running(t) == par_pc[t] = "evaluating"

\* execute -> process_task -> _process_core up to the for-loop of
\* _evaluate_exact_match: the routing configuration and the payload are read,
\* the MCQArtifact is built, correct = 0
ParStart(t) ==
    /\ UNCHANGED <<runVars, aggVars, scoreVars, aceVars, mcqVars, csvVars, routeVars, textVars, summaryVars, extractVars, weightVars, batchVars, collectVars, loaderVars>>
    /\ par_pc[t] = "ready"
    /\ par_pc' = [par_pc EXCEPT ![t] = "evaluating"]
    /\ par_frames' = [par_frames EXCEPT ![FrameOf(t)] =
                         [answers |-> _extract_mcq_artifact(par_tasks[t]).answers,
                          i |-> 1,
                          correct |-> 0]]
    /\ par_reads' = [par_reads EXCEPT ![t] =
                        @ \cup {<<"routing_config", t>>, <<"artifact_payload", t>>}]
    /\ par_writes' = [par_writes EXCEPT ![t] = @ \cup {<<"frame", FrameOf(t)>>}]
    /\ par_overlapped' = (par_overlapped \/ \E u \in 1..Len(par_tasks) : Running(u))
    /\ UNCHANGED <<par_tasks, par_results>>

\* one turn of the for-loop of _evaluate_exact_match
ParEvaluateAnswer(t) ==
    /\ UNCHANGED <<runVars, aggVars, scoreVars, aceVars, mcqVars, csvVars, routeVars, textVars, summaryVars, extractVars, weightVars, batchVars, collectVars, loaderVars>>
    /\ Running(t)
    /\ LET frame == par_frames[FrameOf(t)]
       IN  /\ frame.i <= Len(frame.answers)
           /\ par_frames' = [par_frames EXCEPT ![FrameOf(t)] =
                 [answers |-> [frame.answers EXCEPT ![frame.i] = EvaluateAnswer(@)],
                  i |-> frame.i + 1,
                  correct |-> frame.correct + CorrectIncrement(frame.answers[frame.i])]]
    /\ par_reads' = [par_reads EXCEPT ![t] = @ \cup {<<"frame", FrameOf(t)>>}]
    /\ par_writes' = [par_writes EXCEPT ![t] = @ \cup {<<"frame", FrameOf(t)>>}]
    /\ UNCHANGED <<par_tasks, par_pc, par_results, par_overlapped>>

\* the loop has ended: accuracy, _calculate_ace_scores,
\* _calculate_overall_score, the ArtifactResult, and execute's CompletedArtifact
ParFinish(t) ==
    /\ UNCHANGED <<runVars, aggVars, scoreVars, aceVars, mcqVars, csvVars, routeVars, textVars, summaryVars, extractVars, weightVars, batchVars, collectVars, loaderVars>>
    /\ Running(t)
    /\ LET frame == par_frames[FrameOf(t)]
           eval_result ==
               [total_questions |-> Len(frame.answers),
                correct_answers |-> frame.correct,
                accuracy_percentage |-> Accuracy(frame.correct, Len(frame.answers))]
       IN  /\ frame.i > Len(frame.answers)
           /\ par_results' = [par_results EXCEPT ![t] =
                                 execute(par_tasks[t], McqOutcome(eval_result))]
    /\ par_pc' = [par_pc EXCEPT ![t] = "done"]
    /\ par_reads' = [par_reads EXCEPT ![t] = @ \cup {<<"frame", FrameOf(t)>>}]
    /\ UNCHANGED <<par_tasks, par_frames, par_writes, par_overlapped>>

NextPar ==
    \/ \E t \in 1..Len(par_tasks) : ParStart(t)
    \/ \E t \in 1..Len(par_tasks) : ParEvaluateAnswer(t)
    \/ \E t \in 1..Len(par_tasks) : ParFinish(t)

SpecPar == InitPar /\ [][NextPar]_vars

\* ------------------------------------------- MCQ: normalize, then score
\* Raw answer dicts: question_id, selected_option, correct_option, and
\* is_correct, each present or Missing; a present option may be None.
RawAnswers ==
    {Answer("q1", "B", "B", Missing),
     Answer("q1", " b ", "B", Missing),
     Answer("q1", "A", "B", Missing),
     Answer("q1", "A", "B", "True"),
     Answer("q1", "B", "B", None),
     Answer("q1", None, None, Missing),
     Answer("q1", Missing, Missing, Missing)}

\* Lists of no, one or two raw answers: every accuracy is 0, 50 or 100, a
\* whole number of hundredths.
RawAnswerLists ==
    {<<>>} \cup {<<a>> : a \in RawAnswers}
           \cup {<<a, b>> : a \in RawAnswers, b \in RawAnswers}

EvaluationMethods ==
    {Missing, "exact_match", "partial_credit", "Partial_Credit", "ai_scoring"}

\* A submission of one MCQ artifact whose content the parser produced
McqSubmission(content) ==
    [submission_id |-> <<"sub", 1>>,
     student_id |-> <<"stu", 1>>,
     batch_id |-> "batch1",
     artifacts |-> <<[artifact_id |-> <<"art", 1, 1>>,
                      artifact_type |-> "mcq",
                      content |-> content]>>]

\* Orchestrator.create_and_execute_task: the ProcessingTask it constructs
\* from a payload and a routing configuration (no student_id, no batch_id)
create_task(artifact_payload, routing_config) ==
    [task_id |-> <<"task", 1>>,
     submission_id |-> <<"sub", 1>>,
     batch_id |-> None,
     student_id |-> None,
     artifact_id |-> <<"art", 1, 1>>,
     artifact_type |-> "mcq",
     artifact_payload |-> artifact_payload,
     routing_config |-> routing_config,
     retry_count |-> InitialRetryCount,
     max_retries |-> DefaultMaxRetries]

InitMcq ==
    /\ RunIdle /\ AggIdle /\ ScoreIdle /\ AceIdle /\ ParIdle /\ CsvIdle /\ RouteIdle /\ TextIdle /\ SummaryIdle /\ ExtractIdle /\ WeightIdle /\ BatchIdle /\ CollectIdle /\ LoaderIdle
    /\ mcq_path \in {"parser", "payload"}
    /\ mcq_raw \in IF mcq_path = "parser"
                   THEN {JsonList(l) : l \in RawAnswerLists} \cup {NotAnAnswerList}
                   ELSE {JsonList(l) : l \in RawAnswerLists}
    /\ mcq_method \in IF mcq_path = "parser" THEN {Missing} ELSE EvaluationMethods
    /\ mcq_pc = "raw"
    /\ mcq_parsed = NoArtifact
    /\ mcq_task = NoTask
    /\ mcq_built = NoArtifact
    /\ mcq_artifact = NoArtifact
    /\ mcq_eval = NoEval
    /\ mcq_scores = <<>>

\* CSVParser._parse_content of an MCQ row calls _parse_mcq
ParseMcq ==
    /\ mcq_pc = "raw" /\ mcq_path = "parser"
    /\ mcq_parsed' = _parse_mcq(mcq_raw)
    /\ mcq_pc' = "parsed"
    /\ UNCHANGED <<mcq_raw, mcq_path, mcq_method, mcq_task, mcq_built, mcq_artifact,
                   mcq_eval, mcq_scores>>
    /\ UNCHANGED <<runVars, aggVars, scoreVars, aceVars, parVars, csvVars, routeVars, textVars, summaryVars, extractVars, weightVars, batchVars, collectVars, loaderVars>>

\* Orchestrator.generate_tasks on the parsed submission: the payload is the
\* model_dump() of the MCQArtifact, the routing configuration is {}
GenerateMcqTask ==
    /\ mcq_pc = "parsed"
    /\ mcq_task' = generate_tasks(McqSubmission(mcq_parsed))[1]
    /\ mcq_pc' = "task"
    /\ UNCHANGED <<mcq_raw, mcq_path, mcq_method, mcq_parsed, mcq_built, mcq_artifact,
                   mcq_eval, mcq_scores>>
    /\ UNCHANGED <<runVars, aggVars, scoreVars, aceVars, parVars, csvVars, routeVars, textVars, summaryVars, extractVars, weightVars, batchVars, collectVars, loaderVars>>

\* a task whose payload is {"answers": [...raw answers...]} and whose routing
\* configuration names an evaluation method
SubmitPayload ==
    /\ mcq_pc = "raw" /\ mcq_path = "payload"
    /\ mcq_task' = create_task([answers |-> mcq_raw.answers],
                               [ace_weight_mapping |-> <<>>,
                                processor_config |->
                                    [evaluation_method |-> mcq_method]])
    /\ mcq_pc' = "task"
    /\ UNCHANGED <<mcq_raw, mcq_path, mcq_method, mcq_parsed, mcq_built, mcq_artifact,
                   mcq_eval, mcq_scores>>
    /\ UNCHANGED <<runVars, aggVars, scoreVars, aceVars, parVars, csvVars, routeVars, textVars, summaryVars, extractVars, weightVars, batchVars, collectVars, loaderVars>>

\* MCQProcessor._process_core: mcq_artifact = self._extract_mcq_artifact(task)
ExtractMcq ==
    /\ mcq_pc = "task"
    /\ mcq_built' = _extract_mcq_artifact(mcq_task)
    /\ mcq_artifact' = _extract_mcq_artifact(mcq_task)
    /\ mcq_pc' = "extracted"
    /\ UNCHANGED <<mcq_raw, mcq_path, mcq_method, mcq_parsed, mcq_task, mcq_eval,
                   mcq_scores>>
    /\ UNCHANGED <<runVars, aggVars, scoreVars, aceVars, parVars, csvVars, routeVars, textVars, summaryVars, extractVars, weightVars, batchVars, collectVars, loaderVars>>

\* evaluation_result = self._evaluate_answers(mcq_artifact, processor_config);
\* the call also assigns is_correct inside mcq_artifact
EvaluateMcq ==
    /\ mcq_pc = "extracted"
    /\ mcq_eval' = _evaluate_answers(mcq_artifact,
                                     _get_processor_config(mcq_task.routing_config))
    /\ mcq_artifact' = EvaluatedArtifact(mcq_artifact)
    /\ mcq_pc' = "evaluated"
    /\ UNCHANGED <<mcq_raw, mcq_path, mcq_method, mcq_parsed, mcq_task, mcq_built,
                   mcq_scores>>
    /\ UNCHANGED <<runVars, aggVars, scoreVars, aceVars, parVars, csvVars, routeVars, textVars, summaryVars, extractVars, weightVars, batchVars, collectVars, loaderVars>>

\* ace_scores = self._calculate_ace_scores(evaluation_result, ace_weights)
ScoreMcq ==
    /\ mcq_pc = "evaluated"
    /\ mcq_scores' = _calculate_ace_scores(mcq_eval)
    /\ mcq_pc' = "scored"
    /\ UNCHANGED <<mcq_raw, mcq_path, mcq_method, mcq_parsed, mcq_task, mcq_built,
                   mcq_artifact, mcq_eval>>
    /\ UNCHANGED <<runVars, aggVars, scoreVars, aceVars, parVars, csvVars, routeVars, textVars, summaryVars, extractVars, weightVars, batchVars, collectVars, loaderVars>>

NextMcq ==
    \/ ParseMcq
    \/ GenerateMcqTask
    \/ SubmitPayload
    \/ ExtractMcq
    \/ EvaluateMcq
    \/ ScoreMcq

SpecMcq == InitMcq /\ [][NextMcq]_vars

\* ------------------------------------------------- CSVParser.parse_csv
\* Rows of a CSV that has all REQUIRED_COLUMNS: two submission ids, the three
\* supported artifact types and one unsupported, content that is or is not a
\* JSON answer list.
KnownSubmissionIds == <<"s1", "s2">>
KnownRows ==
    [submission_id : {"s1", "s2"},
     student_id : {"stu1"},
     batch_id : {"batch1"},
     artifact_type : {"mcq", "text", "audio", "video"},
     artifact_content : {JsonList(<<Answer("q1", "B", "B", Missing)>>),
                         NotAnAnswerList}]

\* Columns of a CSV that lacks some required column, in file order
DynamicColumns ==
    <<"1. Question", "Writing prompt", "Speaking prompt", "Listening prompt", "notes">>
ColumnLists ==
    {SelectSeq(DynamicColumns, LAMBDA c : c \in S) :
        S \in (SUBSET {DynamicColumns[k] : k \in 1..Len(DynamicColumns)}) \ {{}}}

\* a cell is text, a URL, or empty (None after df.where)
CellValues == {"some text", "http://a/b.mp3", None}
RowDicts(columns) ==
    {[c \in {columns[k] : k \in 1..Len(columns)} |-> v] : v \in CellValues}

CsvInputs ==
    {[kind |-> "empty"]}
    \cup {[kind |-> "known", rows |-> rows] : rows \in SeqsUpTo(KnownRows, MaxRows)}
    \cup UNION {{[kind |-> "dynamic", columns |-> columns, rows |-> rows] :
                    rows \in SeqsUpTo(RowDicts(columns), MaxRows)} :
                columns \in ColumnLists}

InitCsv ==
    /\ RunIdle /\ AggIdle /\ ScoreIdle /\ AceIdle /\ ParIdle /\ McqIdle /\ RouteIdle /\ TextIdle /\ SummaryIdle /\ ExtractIdle /\ WeightIdle /\ BatchIdle /\ CollectIdle /\ LoaderIdle
    /\ csv_input \in CsvInputs
    /\ csv_pc = "start"
    /\ csv_submissions = <<>>
    /\ csv_error = None

\* parse_csv: decode, pd.read_csv (EmptyDataError on a file without columns,
\* re-raised by the except clause), schema detection
ReadCsv ==
    /\ csv_pc = "start"
    /\ IF csv_input.kind = "empty"
       THEN csv_pc' = "raised" /\ csv_error' = "EmptyDataError"
       ELSE csv_pc' = csv_input.kind /\ csv_error' = csv_error
    /\ UNCHANGED <<csv_input, csv_submissions>>
    /\ UNCHANGED <<runVars, aggVars, scoreVars, aceVars, parVars, mcqVars, routeVars, textVars, summaryVars, extractVars, weightVars, batchVars, collectVars, loaderVars>>

\* parse_csv: return self._parse_known_schema(df, as_json); its exception
\* is logged and re-raised
ParseKnownSchema ==
    /\ csv_pc = "known"
    /\ LET r == _parse_known_schema(csv_input.rows, KnownSubmissionIds)
       IN  /\ csv_pc' = IF r.raised THEN "raised" ELSE "returned"
           /\ csv_error' = r.error
           /\ csv_submissions' = r.submissions
    /\ UNCHANGED csv_input
    /\ UNCHANGED <<runVars, aggVars, scoreVars, aceVars, parVars, mcqVars, routeVars, textVars, summaryVars, extractVars, weightVars, batchVars, collectVars, loaderVars>>

\* parse_csv: return self._parse_dynamic(df)
ParseDynamic ==
    /\ csv_pc = "dynamic"
    /\ csv_submissions' = _parse_dynamic(csv_input.columns, csv_input.rows)
    /\ csv_pc' = "returned"
    /\ UNCHANGED <<csv_input, csv_error>>
    /\ UNCHANGED <<runVars, aggVars, scoreVars, aceVars, parVars, mcqVars, routeVars, textVars, summaryVars, extractVars, weightVars, batchVars, collectVars, loaderVars>>

NextCsv ==
    \/ ReadCsv
    \/ ParseKnownSchema
    \/ ParseDynamic

SpecCsv == InitCsv /\ [][NextCsv]_vars

\* ------------------------------- tasks of a submission: build, execute, finalize
\* A submission with artifacts of any of the three types, with or without
\* an institution_id
RoutedSubmission(types, institution_id) ==
    [submission_id |-> "sub1",
     student_id |-> "stu1",
     batch_id |-> "batch1",
     institution_id |-> institution_id,
     artifacts |-> [a \in 1..Len(types) |->
        [artifact_id |-> <<"art", 1, a>>,
         artifact_type |-> types[a],
         content |-> <<"content", 1, a>>]]]

RoutedSubmissions ==
    {RoutedSubmission(types, institution_id) :
        types \in SeqsUpTo(ArtifactType, MaxArtifacts),
        institution_id \in {None, "inst1"}}

\* What the services around the router hold: the institution's stored
\* configuration (none, or routing_configs for some types), and the types
\* for which aws_config has a queue URL.  settings.AWSConfig declares no
\* *_queue_url field: with it, queues is {}.
RouteEnvs ==
    [institution : [found : {FALSE}, types : {{}}]
                   \cup [found : {TRUE}, types : {{}, {"mcq"}, ArtifactType}],
     queues : {{}, {"mcq", "text"}, ArtifactType}]

TaskBuilders == {"route_submission", "generate_tasks", "create_and_execute_task"}

InitRoute ==
    /\ RunIdle /\ AggIdle /\ ScoreIdle /\ AceIdle /\ ParIdle /\ McqIdle /\ CsvIdle /\ TextIdle /\ SummaryIdle /\ ExtractIdle /\ WeightIdle /\ BatchIdle /\ CollectIdle /\ LoaderIdle
    /\ rt_submission \in RoutedSubmissions
    /\ rt_env \in RouteEnvs
    /\ rt_builder \in TaskBuilders
    /\ rt_pc = "start"
    /\ rt_tasks = <<>>
    /\ rt_completed = <<>>
    /\ rt_result = NoResult

\* InterpreterService.process_submission: tasks = route_submission(submission)
RouteSubmission ==
    /\ rt_pc = "start" /\ rt_builder = "route_submission"
    /\ rt_tasks' = route_submission(rt_env, rt_submission)
    /\ rt_pc' = "built"
    /\ UNCHANGED <<rt_submission, rt_env, rt_builder, rt_completed, rt_result>>
    /\ UNCHANGED <<runVars, aggVars, scoreVars, aceVars, parVars, mcqVars, csvVars, textVars, summaryVars, extractVars, weightVars, batchVars, collectVars, loaderVars>>

\* run(): tasks = orchestrator.generate_tasks(submission)
GenerateRoutedTasks ==
    /\ rt_pc = "start" /\ rt_builder = "generate_tasks"
    /\ rt_tasks' = generate_tasks(rt_submission)
    /\ rt_pc' = "built"
    /\ UNCHANGED <<rt_submission, rt_env, rt_builder, rt_completed, rt_result>>
    /\ UNCHANGED <<runVars, aggVars, scoreVars, aceVars, parVars, mcqVars, csvVars, textVars, summaryVars, extractVars, weightVars, batchVars, collectVars, loaderVars>>

\* Orchestrator.create_and_execute_task for every artifact: the tasks
CreateTasks ==
    /\ rt_pc = "start" /\ rt_builder = "create_and_execute_task"
    /\ rt_tasks' = create_and_execute_tasks(rt_submission)
    /\ rt_pc' = "built"
    /\ UNCHANGED <<rt_submission, rt_env, rt_builder, rt_completed, rt_result>>
    /\ UNCHANGED <<runVars, aggVars, scoreVars, aceVars, parVars, mcqVars, csvVars, textVars, summaryVars, extractVars, weightVars, batchVars, collectVars, loaderVars>>

\* processor.execute(task) for every task, each strategy succeeding or raising
ExecuteBuiltTasks ==
    /\ rt_pc = "built"
    /\ \E outs \in {o \in SeqsUpTo(StrategyOutcomes, Len(rt_tasks)) :
                        Len(o) = Len(rt_tasks)} :
          rt_completed' = [k \in 1..Len(rt_tasks) |-> execute(rt_tasks[k], outs[k])]
    /\ rt_pc' = "executed"
    /\ UNCHANGED <<rt_submission, rt_env, rt_builder, rt_tasks, rt_result>>
    /\ UNCHANGED <<runVars, aggVars, scoreVars, aceVars, parVars, mcqVars, csvVars, textVars, summaryVars, extractVars, weightVars, batchVars, collectVars, loaderVars>>

\* CompletionService.finalize_submission(completed_artifacts)
FinalizeBuiltTasks ==
    /\ rt_pc = "executed"
    /\ rt_result' = finalize_submission(rt_completed)
    /\ rt_pc' = "finalized"
    /\ UNCHANGED <<rt_submission, rt_env, rt_builder, rt_tasks, rt_completed>>
    /\ UNCHANGED <<runVars, aggVars, scoreVars, aceVars, parVars, mcqVars, csvVars, textVars, summaryVars, extractVars, weightVars, batchVars, collectVars, loaderVars>>

NextRoute ==
    \/ RouteSubmission
    \/ GenerateRoutedTasks
    \/ CreateTasks
    \/ ExecuteBuiltTasks
    \/ FinalizeBuiltTasks

SpecRoute == InitRoute /\ [][NextRoute]_vars

\* ================================================================= SpecText
\* TextProcessor on one TEXT task, with the evaluator in any condition.

TextContents == {"essay", "   ", ""}
ScoreValues == {Absent, Num(8500), Num(25000), Num(-500), Str("85"), Str("high"), Null, NaN}
FeedbackValues == {Absent, Str("good")}
OverallFeedbackValues == {Absent, Str("good"), Null}

ResponseObjects ==
    {[analysis_score |-> a, communication_score |-> c, evaluation_score |-> e,
      analysis_feedback |-> f, communication_feedback |-> f,
      evaluation_feedback |-> f, overall_feedback |-> o] :
        a \in ScoreValues, c \in ScoreValues, e \in ScoreValues,
        f \in FeedbackValues, o \in OverallFeedbackValues}

EvaluatorResponses ==
    {[kind |-> "api_error"], [kind |-> "not_json"], [kind |-> "not_dict"]}
    \cup {[kind |-> "object", data |-> d] : d \in ResponseObjects}

text_task(text_content, routing_config) ==
    [task_id |-> <<"task", 1>>,
     submission_id |-> <<"sub", 1>>,
     batch_id |-> None,
     student_id |-> None,
     artifact_id |-> <<"art", 1, 1>>,
     artifact_type |-> "text",
     artifact_payload |-> [text_content |-> text_content],
     routing_config |-> routing_config,
     retry_count |-> InitialRetryCount,
     max_retries |-> DefaultMaxRetries]

InitText ==
    /\ RunIdle /\ AggIdle /\ ScoreIdle /\ AceIdle /\ ParIdle /\ McqIdle /\ CsvIdle /\ RouteIdle /\ SummaryIdle /\ ExtractIdle /\ WeightIdle /\ BatchIdle /\ CollectIdle /\ LoaderIdle
    /\ tx_task \in {text_task(t, r) : t \in TextContents, r \in RoutingConfigs}
    /\ tx_client \in BOOLEAN
    /\ tx_response \in EvaluatorResponses
    /\ tx_pc = "start"
    /\ tx_ai_result = NoAiResult
    /\ tx_completed = NoResult

\* _process_core, lines 31-71, under execute: the text is taken from the
\* payload; an empty one raises ValueError, which execute turns into the
\* failure result
ExtractText ==
    /\ tx_pc = "start"
    /\ IF strip(tx_task.artifact_payload.text_content) = ""
       THEN /\ tx_pc' = "done"
            /\ tx_completed' =
                   execute(tx_task, [raised |-> TRUE,
                                     error |-> "Empty written response text."])
       ELSE /\ tx_pc' = "evaluate"
            /\ UNCHANGED tx_completed
    /\ UNCHANGED <<tx_task, tx_client, tx_response, tx_ai_result>>
    /\ UNCHANGED <<runVars, aggVars, scoreVars, aceVars, parVars, mcqVars, csvVars, routeVars, summaryVars, extractVars, weightVars, batchVars, collectVars, loaderVars>>

\* _process_core line 76: ai_result = self.ai_client.evaluate_text_ace(text)
EvaluateTextAce ==
    /\ tx_pc = "evaluate"
    /\ tx_ai_result' =
           evaluate_text_ace(tx_client, tx_response,
                             strip(tx_task.artifact_payload.text_content))
    /\ tx_pc' = "evaluated"
    /\ UNCHANGED <<tx_task, tx_client, tx_response, tx_completed>>
    /\ UNCHANGED <<runVars, aggVars, scoreVars, aceVars, parVars, mcqVars, csvVars, routeVars, summaryVars, extractVars, weightVars, batchVars, collectVars, loaderVars>>

\* _process_core lines 79-102 under execute: an exception that left the
\* evaluator reaches execute's handler
BuildTextResult ==
    /\ tx_pc = "evaluated"
    /\ tx_completed' =
           IF tx_ai_result.raised
           THEN execute(tx_task, [raised |-> TRUE,
                                  error |-> tx_ai_result.overall_feedback])
           ELSE [kind |-> "CompletedArtifact",
                 submission_id |-> tx_task.submission_id,
                 student_id |-> tx_task.student_id,
                 batch_id |-> tx_task.batch_id,
                 artifact_result |-> text_process_core(tx_task, tx_ai_result)]
    /\ tx_pc' = "done"
    /\ UNCHANGED <<tx_task, tx_client, tx_response, tx_ai_result>>
    /\ UNCHANGED <<runVars, aggVars, scoreVars, aceVars, parVars, mcqVars, csvVars, routeVars, summaryVars, extractVars, weightVars, batchVars, collectVars, loaderVars>>

NextText == ExtractText \/ EvaluateTextAce \/ BuildTextResult

SpecText == InitText /\ [][NextText]_vars

\* ============================================================== SpecSummary
\* ReportGenerator._compute_batch_summary on a list of StudentReports.

\* StudentReports as ScoreAggregator produces them: scores in hundredths,
\* passed and excellence_achieved following the overall score
SummaryReport(analysis, communication, evaluation, overall) ==
    [analysis_score |-> analysis, communication_score |-> communication,
     evaluation_score |-> evaluation, overall_score |-> overall,
     passed |-> ThresholdMet(overall * 100, passing_score),
     excellence_achieved |-> ThresholdMet(overall * 100, excellence_threshold)]

SummaryReports ==
    {SummaryReport(0, 0, 0, 0), SummaryReport(7001, 6500, 7250, 6900),
     SummaryReport(8000, 7102, 7001, 7430), SummaryReport(10000, 9000, 9500, 9550)}

InitSummary ==
    /\ RunIdle /\ AggIdle /\ ScoreIdle /\ AceIdle /\ ParIdle /\ McqIdle /\ CsvIdle /\ RouteIdle /\ TextIdle /\ ExtractIdle /\ WeightIdle /\ BatchIdle /\ CollectIdle /\ LoaderIdle
    /\ bs_reports \in SeqsUpTo(SummaryReports, MaxStudents)
    /\ bs_pc = "start"
    /\ bs_summary = NoSummary

ComputeBatchSummary ==
    /\ bs_pc = "start"
    /\ \E up \in [SummaryRoundings -> BOOLEAN] :
           bs_summary' = _compute_batch_summary(bs_reports, up)
    /\ bs_pc' = "done"
    /\ UNCHANGED bs_reports
    /\ UNCHANGED <<runVars, aggVars, scoreVars, aceVars, parVars, mcqVars, csvVars, routeVars, textVars, extractVars, weightVars, batchVars, collectVars, loaderVars>>

NextSummary == ComputeBatchSummary

SpecSummary == InitSummary /\ [][NextSummary]_vars

\* ============================================================== SpecExtract
\* MCQProcessor on one task whose payload has any of the accepted shapes.
\* MCQArtifact objects live in a heap: reference 1 is the typed payload the
\* caller handed over, reference 2 the artifact build_from_list creates.

PayloadRef == 1
BuiltRef == 2

AnswersAt(question_id) == <<Answer(question_id, "B", "B", Missing)>>

\* MCQArtifact instances a caller can construct
TypedArtifacts ==
    {[answers |-> <<Answer("q_typed", "B", "B", v)>>, total_questions |-> 1,
      correct_answers |-> 0, score_percentage |-> 0] : v \in {None, "False"}}
    \cup {[answers |-> <<Answer("q_typed", "B", "B", "True")>>, total_questions |-> 1,
           correct_answers |-> 1, score_percentage |-> 10000],
          [answers |-> <<>>, total_questions |-> 0,
           correct_answers |-> 0, score_percentage |-> 0]}

ParsedContents(question_id) ==
    {JInvalid, JOther, JList(AnswersAt(question_id)),
     JDict(JList(AnswersAt(question_id))), JDict(KeyMissing), JDict(JOther)}

DictPayloads ==
    {DictPayload(m, a, c) :
        m \in {KeyMissing, JOther, JDict(KeyMissing), JDict(JOther),
               JDict(JList(AnswersAt("q_mcq_data")))},
        a \in {KeyMissing, JOther, JList(<<>>), JList(AnswersAt("q_answers"))},
        c \in {KeyMissing, JOther} \cup {JStr(x) : x \in ParsedContents("q_content")}}

UntypedPayloads ==
    DictPayloads \cup {JStr(x) : x \in ParsedContents("q_str")} \cup {JOther}

extract_task(artifact_payload, routing_config) ==
    [task_id |-> "task1",
     submission_id |-> "sub1",
     batch_id |-> None,
     student_id |-> None,
     artifact_id |-> "art1",
     artifact_type |-> "mcq",
     artifact_payload |-> artifact_payload,
     routing_config |-> routing_config,
     retry_count |-> InitialRetryCount,
     max_retries |-> DefaultMaxRetries]

InitExtract ==
    /\ RunIdle /\ AggIdle /\ ScoreIdle /\ AceIdle /\ ParIdle /\ McqIdle /\ CsvIdle /\ RouteIdle /\ TextIdle /\ SummaryIdle /\ WeightIdle /\ BatchIdle /\ CollectIdle /\ LoaderIdle
    /\ \/ /\ ex_given \in TypedArtifacts
          /\ ex_heap = <<ex_given, NoArtifact>>
          /\ ex_task \in {extract_task(TypedPayload(PayloadRef), r) : r \in RoutingConfigs}
       \/ /\ ex_given = NoArtifact
          /\ ex_heap = <<NoArtifact, NoArtifact>>
          /\ ex_task \in {extract_task(p, r) : p \in UntypedPayloads, r \in RoutingConfigs}
    /\ ex_pc = "task"
    /\ ex_extract = NoExtract
    /\ ex_eval = NoEval

\* mcq_artifact = self._extract_mcq_artifact(task): the payload's own object
\* for an MCQArtifact instance, a new object otherwise; an exception ends
\* _process_core
ExtractPayload ==
    /\ ex_pc = "task"
    /\ LET out == _extract_mcq_artifact_any(ex_task, ex_heap)
       IN  /\ ex_extract' = [raised |-> out.raised,
                             ref |-> IF out.passthrough
                                     THEN ex_task.artifact_payload.ref ELSE BuiltRef]
           /\ ex_heap' = IF out.passthrough \/ out.raised THEN ex_heap
                         ELSE [ex_heap EXCEPT ![BuiltRef] = out.artifact]
           /\ ex_pc' = IF out.raised THEN "failed" ELSE "extracted"
    /\ UNCHANGED <<ex_task, ex_given, ex_eval>>
    /\ UNCHANGED <<runVars, aggVars, scoreVars, aceVars, parVars, mcqVars, csvVars, routeVars, textVars, summaryVars, weightVars, batchVars, collectVars, loaderVars>>

\* evaluation_result = self._evaluate_answers(mcq_artifact, processor_config):
\* the loop assigns ans.is_correct in the object mcq_artifact refers to
EvaluateExtracted ==
    /\ ex_pc = "extracted"
    /\ ex_eval' = _evaluate_answers(ex_heap[ex_extract.ref],
                                    _get_processor_config(ex_task.routing_config))
    /\ ex_heap' = [ex_heap EXCEPT ![ex_extract.ref] = EvaluatedArtifact(@)]
    /\ ex_pc' = "evaluated"
    /\ UNCHANGED <<ex_task, ex_given, ex_extract>>
    /\ UNCHANGED <<runVars, aggVars, scoreVars, aceVars, parVars, mcqVars, csvVars, routeVars, textVars, summaryVars, weightVars, batchVars, collectVars, loaderVars>>

NextExtract == ExtractPayload \/ EvaluateExtracted

SpecExtract == InitExtract /\ [][NextExtract]_vars

\* ============================================================== SpecWeights
\* A strategy's weights and overall score for any ace_weight_mapping.

WeightEntries == {NoWeight} \cup {Weight(v) : v \in {0 - 1, 0, 1, 2}}
Mappings == {NoMapping} \cup {<<a, c, e>> : a \in WeightEntries, c \in WeightEntries, e \in WeightEntries}
StrategyScores == {0, 8000, 12000}

InitWeights ==
    /\ RunIdle /\ AggIdle /\ ScoreIdle /\ AceIdle /\ ParIdle /\ McqIdle /\ CsvIdle /\ RouteIdle /\ TextIdle /\ SummaryIdle /\ ExtractIdle /\ BatchIdle /\ CollectIdle /\ LoaderIdle
    /\ aw_mapping \in Mappings
    /\ aw_raw \in {<<a, c, e>> : a \in StrategyScores, c \in StrategyScores, e \in StrategyScores}
    /\ aw_pc = "start"
    /\ aw_weights = NoWeights
    /\ aw_scores = <<>>
    /\ aw_overall = Zero

\* ace_weights = self._get_ace_weights(routing_config)
GetAceWeights ==
    /\ aw_pc = "start"
    /\ aw_weights' = _get_ace_weights_exact(aw_mapping)
    /\ aw_pc' = "weighted"
    /\ UNCHANGED <<aw_mapping, aw_raw, aw_scores, aw_overall>>
    /\ UNCHANGED <<runVars, aggVars, scoreVars, aceVars, parVars, mcqVars, csvVars, routeVars, textVars, summaryVars, extractVars, batchVars, collectVars, loaderVars>>

\* ace_scores = self._calculate_ace_scores(...);
\* overall_score = self._calculate_overall_score(ace_scores)
ScoreWithWeights ==
    /\ aw_pc = "weighted"
    /\ aw_scores' = WeightedAceScores(aw_raw, aw_weights)
    /\ aw_overall' = _calculate_overall_score(WeightedAceScores(aw_raw, aw_weights))
    /\ aw_pc' = "done"
    /\ UNCHANGED <<aw_mapping, aw_raw, aw_weights>>
    /\ UNCHANGED <<runVars, aggVars, scoreVars, aceVars, parVars, mcqVars, csvVars, routeVars, textVars, summaryVars, extractVars, batchVars, collectVars, loaderVars>>

NextWeights == GetAceWeights \/ ScoreWithWeights

SpecWeights == InitWeights /\ [][NextWeights]_vars

\* ================================================================ SpecBatch
\* AggregatorService.process_batch, step by step.  A step is named by a
\* record; the steps of pb_failing raise when they run.

Step(name) == [step |-> name, student |-> 0]
PdfStep(i) == [step |-> "pdf", student |-> i]
BatchSteps == {Step("csv_export"), Step("csv_upload"), Step("json_upload")} \cup {PdfStep(i) : i \in 1..MaxStudents}

\* CSVExporter as the repository defines it has export_batch_to_csv_local
\* and export_report, and no export_batch_to_csv; "with_method" is an
\* exporter object that has the method process_batch calls
CsvExporters == {"repository", "with_method"}

InitBatch ==
    /\ RunIdle /\ AggIdle /\ ScoreIdle /\ AceIdle /\ ParIdle /\ McqIdle /\ CsvIdle /\ RouteIdle /\ TextIdle /\ SummaryIdle /\ ExtractIdle /\ WeightIdle /\ CollectIdle /\ LoaderIdle
    /\ pb_collected \in 0..MaxStudents
    /\ pb_exporter \in CsvExporters
    /\ pb_bucket \in BOOLEAN
    /\ pb_failing \in SUBSET BatchSteps
    /\ pb_pc = "collect"
    /\ pb_pdf = 0
    /\ pb_ran = {}
    /\ pb_logged = {}
    /\ pb_returned = None

BatchFrame == UNCHANGED <<runVars, aggVars, scoreVars, aceVars, parVars, mcqVars, csvVars, routeVars, textVars, summaryVars, extractVars, weightVars, collectVars, loaderVars>>

\* Steps 1-3: collect_results; an empty list returns create_empty_report;
\* else aggregate and generate_batch_report
CollectAndReport ==
    /\ pb_pc = "collect"
    /\ IF pb_collected = 0
       THEN pb_pc' = "returned" /\ pb_returned' = "empty_report"
       ELSE pb_pc' = "csv_export" /\ UNCHANGED pb_returned
    /\ UNCHANGED <<pb_collected, pb_exporter, pb_bucket, pb_failing, pb_pdf, pb_ran, pb_logged>>
    /\ BatchFrame

\* Step 4, line 66: csv_data = self.csv_exporter.export_batch_to_csv(batch_report),
\* outside every try block: AttributeError when the exporter has no such
\* method, or the method's own exception
ExportCsv ==
    /\ pb_pc = "csv_export"
    /\ IF pb_exporter = "repository" \/ Step("csv_export") \in pb_failing
       THEN /\ pb_pc' = "raised"
            /\ pb_returned' = "exception"
            /\ UNCHANGED pb_ran
       ELSE /\ pb_pc' = "csv_upload"
            /\ pb_ran' = pb_ran \cup {Step("csv_export")}
            /\ UNCHANGED pb_returned
    /\ UNCHANGED <<pb_collected, pb_exporter, pb_bucket, pb_failing, pb_pdf, pb_logged>>
    /\ BatchFrame

\* Step 4, lines 68-76: the upload, skipped without a bucket, its exception
\* logged
UploadCsv ==
    /\ pb_pc = "csv_upload"
    /\ IF ~pb_bucket \/ Step("csv_upload") \in pb_failing
       THEN pb_logged' = pb_logged \cup {Step("csv_upload")} /\ UNCHANGED pb_ran
       ELSE pb_ran' = pb_ran \cup {Step("csv_upload")} /\ UNCHANGED pb_logged
    /\ pb_pc' = "pdf"
    /\ pb_pdf' = 1
    /\ UNCHANGED <<pb_collected, pb_exporter, pb_bucket, pb_failing, pb_returned>>
    /\ BatchFrame

\* Step 5, lines 79-89: one turn of the loop over student_reports
GeneratePdf ==
    /\ pb_pc = "pdf"
    /\ pb_pdf <= pb_collected
    /\ IF PdfStep(pb_pdf) \in pb_failing
       THEN pb_logged' = pb_logged \cup {PdfStep(pb_pdf)} /\ UNCHANGED pb_ran
       ELSE pb_ran' = pb_ran \cup {PdfStep(pb_pdf)} /\ UNCHANGED pb_logged
    /\ pb_pdf' = pb_pdf + 1
    /\ UNCHANGED <<pb_collected, pb_exporter, pb_bucket, pb_failing, pb_pc, pb_returned>>
    /\ BatchFrame

\* Step 6, lines 91-101: the batch report JSON upload
UploadJson ==
    /\ pb_pc = "pdf"
    /\ pb_pdf > pb_collected
    /\ IF ~pb_bucket \/ Step("json_upload") \in pb_failing
       THEN pb_logged' = pb_logged \cup {Step("json_upload")} /\ UNCHANGED pb_ran
       ELSE pb_ran' = pb_ran \cup {Step("json_upload")} /\ UNCHANGED pb_logged
    /\ pb_pc' = "return"
    /\ UNCHANGED <<pb_collected, pb_exporter, pb_bucket, pb_failing, pb_pdf, pb_returned>>
    /\ BatchFrame

\* Step 7, lines 103-108: return batch_report
ReturnBatchReport ==
    /\ pb_pc = "return"
    /\ pb_returned' = "batch_report"
    /\ pb_pc' = "returned"
    /\ UNCHANGED <<pb_collected, pb_exporter, pb_bucket, pb_failing, pb_pdf, pb_ran, pb_logged>>
    /\ BatchFrame

NextBatch ==
    \/ CollectAndReport
    \/ ExportCsv
    \/ UploadCsv
    \/ GeneratePdf
    \/ UploadJson
    \/ ReturnBatchReport

SpecBatch == InitBatch /\ [][NextBatch]_vars

\* ============================================================== SpecCollect
\* Results stored by CompletionService.upload_submission, then collected for
\* one batch by ResultCollector.collect_results.

BatchIds == {<<"A">>, <<"A", "_", "1">>, <<"B">>}
StoredSubmissionIds == {<<"s">>, <<"1", "_", "s">>}
StoredResults ==
    {[batch_id |-> b, submission_id |-> sub] : b \in BatchIds, sub \in StoredSubmissionIds}

InitCollect ==
    /\ RunIdle /\ AggIdle /\ ScoreIdle /\ AceIdle /\ ParIdle /\ McqIdle /\ CsvIdle /\ RouteIdle /\ TextIdle /\ SummaryIdle /\ ExtractIdle /\ WeightIdle /\ BatchIdle /\ LoaderIdle
    /\ rc_env \in {"local", "aws"}
    /\ rc_files = {}
    /\ rc_requested = <<>>
    /\ rc_collected = {}
    /\ rc_pc = "storing"

CollectFrame == UNCHANGED <<runVars, aggVars, scoreVars, aceVars, parVars, mcqVars, csvVars, routeVars, textVars, summaryVars, extractVars, weightVars, batchVars, loaderVars>>

\* CompletionService.upload_submission(submission)
StoreResult ==
    /\ rc_pc = "storing"
    /\ Cardinality(rc_files) < MaxStored
    /\ \E submission \in StoredResults :
           rc_files' = upload_submission_named(rc_env, rc_files, submission)
    /\ UNCHANGED <<rc_env, rc_requested, rc_collected, rc_pc>>
    /\ CollectFrame

\* ResultCollector.collect_results(batch_id)
CollectResults ==
    /\ rc_pc = "storing"
    /\ \E batch_id \in BatchIds :
           /\ rc_requested' = batch_id
           /\ rc_collected' = collect_results_named(rc_env, rc_files, batch_id)
    /\ rc_pc' = "collected"
    /\ UNCHANGED <<rc_env, rc_files>>
    /\ CollectFrame

NextCollect == StoreResult \/ CollectResults

SpecCollect == InitCollect /\ [][NextCollect]_vars

\* =============================================================== SpecLoader
\* One ConfigLoader, any sequence of up to MaxOps calls.  cl_clock counts
\* the calls; cl_reset and the `at` of a cache entry are times on that clock.

Institutions == {"inst1", "inst2"}
CacheKeys == {CacheKey(i) : i \in Institutions}
\* inst2 has a record in the DynamoDB table; its version is DynamoVersion
DynamoVersion == 100
InvalidateKeys == CacheKeys \cup {<<"inst1">>, <<>>}

\* what a lookup that misses the cache can load: the S3 object, else the
\* DynamoDB record, else nothing; or an exception on the way
LoadOutcomes(institution_id) ==
    {LoadError}
    \cup (IF cl_s3[institution_id] # 0 THEN {LoadedConfig(cl_s3[institution_id])}
          ELSE IF institution_id = "inst2" THEN {LoadedConfig(DynamoVersion)}
          ELSE {NothingLoaded})

InitLoader ==
    /\ RunIdle /\ AggIdle /\ ScoreIdle /\ AceIdle /\ ParIdle /\ McqIdle /\ CsvIdle /\ RouteIdle /\ TextIdle /\ SummaryIdle /\ ExtractIdle /\ WeightIdle /\ BatchIdle /\ CollectIdle
    /\ cl_cache = [k \in CacheKeys |-> NotCached]
    /\ cl_s3 \in [Institutions -> {0, 1}]
    /\ cl_clock = 0
    /\ cl_reset = [i \in Institutions |-> 0]
    /\ cl_last = NoOperation

LoaderFrame == UNCHANGED <<runVars, aggVars, scoreVars, aceVars, parVars, mcqVars, csvVars, routeVars, textVars, summaryVars, extractVars, weightVars, batchVars, collectVars>>

\* get_institution_config(institution_id)
GetInstitutionConfig ==
    /\ cl_clock < MaxOps
    /\ \E institution_id \in Institutions :
         \E loaded \in LoadOutcomes(institution_id) :
           LET out == get_institution_config(cl_cache, institution_id, loaded, cl_clock + 1)
           IN  /\ cl_cache' = out.cache
               /\ cl_last' = [op |-> "get", institution_id |-> institution_id,
                              found |-> out.found, object |-> out.object,
                              reset |-> cl_reset[institution_id]]
    /\ cl_clock' = cl_clock + 1
    /\ UNCHANGED <<cl_s3, cl_reset>>
    /\ LoaderFrame

\* save_institution_config(config): the stored object gets a version not
\* used before
SaveInstitutionConfig ==
    /\ cl_clock < MaxOps
    /\ \E institution_id \in Institutions, put_ok \in BOOLEAN :
           LET out == save_institution_config(cl_cache, institution_id, put_ok)
           IN  /\ cl_cache' = out.cache
               /\ cl_s3' = IF put_ok THEN [cl_s3 EXCEPT ![institution_id] = cl_clock + 2]
                           ELSE cl_s3
               /\ cl_reset' = IF put_ok
                              THEN [cl_reset EXCEPT ![institution_id] = cl_clock + 1]
                              ELSE cl_reset
               /\ cl_last' = [op |-> "save", institution_id |-> institution_id,
                              saved |-> out.saved]
    /\ cl_clock' = cl_clock + 1
    /\ LoaderFrame

\* invalidate_cache(key)
InvalidateCache ==
    /\ cl_clock < MaxOps
    /\ \E key \in InvalidateKeys :
           /\ cl_cache' = invalidate_cache(cl_cache, key)
           /\ cl_reset' = [i \in Institutions |->
                              IF key = <<>> \/ key = CacheKey(i)
                              THEN cl_clock + 1 ELSE cl_reset[i]]
           /\ cl_last' = [op |-> "invalidate", key |-> key]
    /\ cl_clock' = cl_clock + 1
    /\ UNCHANGED cl_s3
    /\ LoaderFrame

NextLoader == GetInstitutionConfig \/ SaveInstitutionConfig \/ InvalidateCache

SpecLoader == InitLoader /\ [][NextLoader]_vars

\* =================================================================== claims
Terminal == {"COMPLETED", "FAILED"}

Contains(seq, x) == \E k \in 1..Len(seq) : seq[k] = x

\* C1: BaseProcessor.execute never lets an exception of the strategy out: for
\* every task whose process_task raised, execute_tasks holds a CompletedArtifact
\* for that task whose ArtifactResult has overall_score 0.0, no ace_scores, the
\* exception text in feedback and in errors, and the task's artifact_id and
\* artifact_type.
C1_FailureBecomesZeroResult ==
    \A i \in DOMAIN outcomes :
        outcomes[i].raised =>
            \E k \in 1..Len(completed) :
                LET r == completed[k].artifact_result
                IN  /\ completed[k].kind = "CompletedArtifact"
                    /\ r.artifact_id = tasks[i].artifact_id
                    /\ r.artifact_type = tasks[i].artifact_type
                    /\ r.overall_score.ok
                    /\ r.overall_score.num = 0
                    /\ r.ace_scores = <<>>
                    /\ Contains(r.feedback, outcomes[i].error)
                    /\ Contains(r.errors, outcomes[i].error)

C1_Witness ==
    /\ pc = "finalize"
    /\ Len(tasks) >= 2
    /\ \E i, j \in DOMAIN outcomes :
          /\ outcomes[i].raised /\ outcomes[j].raised
          /\ outcomes[i].error # outcomes[j].error

\* C2: execute_tasks runs every task of its list exactly once, each ending
\* COMPLETED or FAILED, and returns one result per task, in task order; a
\* failed task is not run again, and no step changes a task (its retry_count
\* and max_retries stay as given, whatever they are).
C2_State ==
    /\ \A i \in 1..Len(tasks) :
          /\ attempts[i] <= 1
          /\ (i < ti) <=> (status[i] \in Terminal)
          /\ (status[i] \in Terminal) => attempts[i] = 1
          /\ (status[i] = "FAILED") <=> (i \in DOMAIN outcomes /\ outcomes[i].raised)
    /\ pc = "finalize" =>
          /\ Len(completed) = Len(tasks)
          /\ \A i \in 1..Len(tasks) :
                /\ status[i] \in Terminal
                /\ attempts[i] = 1
                /\ completed[i].artifact_result.artifact_id = tasks[i].artifact_id

C2_EachTaskExactlyOnce == []C2_State /\ [][tasks' = tasks]_vars

C2_Witness ==
    /\ pc = "finalize"
    /\ Len(tasks) >= 2
    /\ \E i \in 1..Len(tasks) :
          status[i] = "FAILED" /\ tasks[i].retry_count < tasks[i].max_retries
    /\ \E i \in 1..Len(tasks) :
          status[i] = "COMPLETED" /\ tasks[i].retry_count > tasks[i].max_retries

\* C3: every submission of a run gets exactly one StudentReport: the run does
\* not stop on a submission, and when it is done every submission has exactly
\* one report, all-zero when the submission has no usable artifact result (no
\* artifacts, or every artifact failed).
ReportsOf(submission_id) ==
    {k \in 1..Len(student_reports) :
        student_reports[k].submission_id = submission_id}

AllZero(report) ==
    /\ report.analysis_score = 0 /\ report.communication_score = 0
    /\ report.evaluation_score = 0 /\ report.overall_score = 0
    /\ ~report.passed /\ ~report.excellence_achieved

C3_OneReportPerSubmission ==
    /\ pc # "crashed"
    /\ pc = "done" =>
          \A s \in 1..Len(submissions) :
              /\ Cardinality(ReportsOf(submissions[s].submission_id)) = 1
              /\ \A k \in ReportsOf(submissions[s].submission_id) :
                    (\A f \in 1..Len(files) :
                        files[f].data.submission_id = submissions[s].submission_id
                        => \A a \in 1..Len(files[f].data.artifact_results) :
                              files[f].data.artifact_results[a].ace_scores = <<>>)
                    => AllZero(student_reports[k])

\* C4: aggregation is a barrier over a submission's tasks: the SubmissionResult
\* of a submission is built, stored and aggregated only when every task
\* generated for it has ended (COMPLETED or FAILED) and its result is in the
\* SubmissionResult; the aggregation runs after the last submission's tasks.
StoredComplete(f) ==
    \E s \in 1..Len(submissions) :
        /\ submissions[s].submission_id = f.data.submission_id
        /\ s < si
        /\ Len(f.data.artifact_results) = Len(submissions[s].artifacts)
        /\ \A a \in 1..Len(submissions[s].artifacts) :
              f.data.artifact_results[a].artifact_id
                  = submissions[s].artifacts[a].artifact_id

C4_AggregationBarrier ==
    /\ pc \in {"upload", "aggregate"} =>
          /\ \A i \in 1..Len(tasks) : status[i] \in Terminal
          /\ Len(tasks) = Len(submissions[IF pc = "upload" THEN si ELSE si - 1].artifacts)
    /\ pc = "upload" =>
          /\ submission_result.submission_id = submissions[si].submission_id
          /\ Len(submission_result.artifact_results) = Len(submissions[si].artifacts)
    /\ \A f \in 1..Len(files) : StoredComplete(files[f])
    /\ (pc = "aggregate" \/ student_reports # <<>>) =>
          /\ si > Len(submissions)
          /\ \A i \in 1..Len(tasks) : status[i] \in Terminal

C4_Witness ==
    /\ pc = "done"
    /\ Len(submissions) >= 2
    /\ Len(student_reports) = Len(submissions)
    /\ \A s \in 1..Len(submissions) : Len(submissions[s].artifacts) >= 2
    /\ \E i \in 1..Len(tasks) : status[i] = "FAILED"

\* ------------------------------------------------------------------ C5
Dimensions == {"analysis", "communication", "evaluation"}
ScoreField(report, d) ==
    CASE d = "analysis" -> report.analysis_score
      [] d = "communication" -> report.communication_score
      [] d = "evaluation" -> report.evaluation_score

\* C5: the aggregator is order-independent: aggregating any permutation of a
\* submission's artifact_results gives the same analysis, communication,
\* evaluation and overall scores, the same passed and excellence_achieved flags
\* and the same set of artifact_types (and fails for the one exactly when it
\* fails for the other).
C5_OrderIndependent ==
    agg_report_permuted # NoResult =>
        /\ agg_report_permuted.raised = agg_report.raised
        /\ ~agg_report.raised =>
              /\ \A d \in Dimensions :
                    ScoreField(agg_report_permuted, d) = ScoreField(agg_report, d)
              /\ agg_report_permuted.overall_score = agg_report.overall_score
              /\ agg_report_permuted.passed = agg_report.passed
              /\ agg_report_permuted.excellence_achieved
                    = agg_report.excellence_achieved
              /\ agg_report_permuted.artifact_types = agg_report.artifact_types

\* ------------------------------------------------------------------ C7
HasReport == agg_report # NoResult /\ ~agg_report.raised
Loaded == agg_submission.artifact_results

\* the claim's artifact-type weights (0.4, 0.35, 0.25) and its sums, taken
\* over the results as loaded
StatedTypeWeight(t) == CASE t = "mcq" -> 40 [] t = "text" -> 35 [] t = "audio" -> 25
StatedScore(a, d) ==
    SumSeq([k \in 1..Len(a.ace_scores) |->
               IF a.ace_scores[k].dimension = d THEN a.ace_scores[k].score ELSE 0])
StatedNumerator(d) ==
    SumSeq([k \in 1..Len(Loaded) |->
               StatedScore(Loaded[k], d) * StatedTypeWeight(Loaded[k].artifact_type)])
StatedDenominator ==
    SumSeq([k \in 1..Len(Loaded) |-> StatedTypeWeight(Loaded[k].artifact_type)])
StatedOverall ==
    agg_report.analysis_score * 40 + agg_report.communication_score * 30
    + agg_report.evaluation_score * 30

SingleMcq90 ==
    /\ Len(Loaded) = 1
    /\ Loaded[1].artifact_type = "mcq"
    /\ Len(Loaded[1].ace_scores) = 3
    /\ \A k \in 1..3 : Loaded[1].ace_scores[k].score = 9000

\* C7 as stated: each dimension score of the report equals the weighted sum
\* divided by the weight of the results present, and overall_score equals
\* analysis x 0.4 + communication x 0.3 + evaluation x 0.3, exactly.
C7_ExactWeightedAverage ==
    (HasReport /\ Len(Loaded) >= 1) =>
        /\ \A d \in Dimensions :
              ScoreField(agg_report, d) * StatedDenominator = StatedNumerator(d)
        /\ agg_report.overall_score * 100 = StatedOverall

\* C7 (amended): for a submission with at least one artifact result, each
\* dimension score of the report is the weighted sum over its results divided
\* by the weight of the results present, rounded to two decimals (so within
\* 0.005 of the quotient), and overall_score is analysis x 0.4 +
\* communication x 0.3 + evaluation x 0.3 of the reported dimension scores,
\* rounded to two decimals; a single MCQ result scoring 90, 90, 90 gets 90 in
\* each dimension.
C7_RoundedWeightedAverage ==
    (HasReport /\ Len(Loaded) >= 1) =>
        /\ \A d \in Dimensions :
              2 * Abs(ScoreField(agg_report, d) * StatedDenominator
                      - StatedNumerator(d)) <= StatedDenominator
        /\ 2 * Abs(agg_report.overall_score * 100 - StatedOverall) <= 100
        /\ SingleMcq90 => \A d \in Dimensions : ScoreField(agg_report, d) = 9000

\* a report over results of two artifact types, one of them the MCQ result
\* scoring 90, 90, 90, whose analysis score had to be rounded
C7_Witness ==
    /\ HasReport
    /\ Len(Loaded) = 2
    /\ agg_report.artifact_types = {"mcq", "text"}
    /\ \E k \in 1..2 : Loaded[k].artifact_type = "mcq"
                       /\ StatedScore(Loaded[k], "analysis") = 9000
    /\ agg_report.analysis_score * StatedDenominator # StatedNumerator("analysis")

\* ------------------------------------------------------------------ C8
\* C8: in every StudentReport the aggregator produces, passed is true exactly
\* when the report's overall_score >= 70.0 and excellence_achieved is true
\* exactly when the report's overall_score >= 90.0.
C8_FlagsMatchReportedScore ==
    HasReport =>
        /\ agg_report.passed <=> (agg_report.overall_score >= passing_score)
        /\ agg_report.excellence_achieved
              <=> (agg_report.overall_score >= excellence_threshold)


\* ------------------------------------------------------------------ C9
Computed == sc_overall # NotComputed
StatedWeightSum == SumSeq([k \in 1..Len(sc_scores) |-> sc_scores[k].weight])
StatedScoreSum == SumSeq([k \in 1..Len(sc_scores) |-> sc_scores[k].score])
StatedProductSum ==
    SumSeq([k \in 1..Len(sc_scores) |-> sc_scores[k].score * sc_scores[k].weight])
Example80_60 ==
    sc_scores = <<ACEScore("analysis", 8000, 40), ACEScore("analysis", 6000, 60)>>

\* C9: _calculate_overall_score returns sum(score x weight) / sum(weight) when
\* the weights sum to a positive value (80 and 60 with weights 0.4 and 0.6 give
\* 68.0), the unweighted mean of the scores when the weights sum to zero, 0.0
\* for an empty list, and never divides by zero.
C9_OverallScoreFormula ==
    Computed =>
        /\ sc_overall.ok
        /\ sc_overall.den > 0
        /\ sc_scores = <<>> => sc_overall.num = 0
        /\ StatedWeightSum > 0 =>
              sc_overall.num * StatedWeightSum = StatedProductSum * sc_overall.den
        /\ (sc_scores # <<>> /\ StatedWeightSum = 0) =>
              sc_overall.num * Len(sc_scores) = StatedScoreSum * sc_overall.den
        /\ Example80_60 => sc_overall.num = 6800 * sc_overall.den

\* the overall score of 80 and 60 with weights 0.4 and 0.6 has been computed
C9_Witness == Computed /\ Example80_60 /\ sc_overall.num = 6800 * sc_overall.den

\* ------------------------------------------------------------------ C10
\* C10: every ACEScore instance has 0.0 <= score <= 100.0 whatever value it
\* was created from (-50 is stored as 0, 500 as 100), whether a strategy built
\* it or it was loaded from a stored result for aggregation.
C10_EveryScoreInRange ==
    ace_score # NoScore =>
        /\ 0 <= ace_score.value.score /\ ace_score.value.score <= 10000
        /\ ace_score.raw = 0 - 5000 => ace_score.value.score = 0
        /\ ace_score.raw = 50000 => ace_score.value.score = 10000


\* ------------------------------------------------------------------ C6
\* the CompletedArtifact of a task executed alone, start to end
ExecutedAlone(task) ==
    execute(task, McqOutcome(_evaluate_exact_match(_extract_mcq_artifact(task))))

C11_EmptyReport ==
    (agg_report # NoResult /\ agg_submission.artifact_results = <<>>) =>
        /\ ~agg_report.raised
        /\ agg_report.submission_id = agg_submission.submission_id
        /\ agg_report.student_id = agg_submission.student_id
        /\ agg_report.analysis_score = 0
        /\ agg_report.communication_score = 0
        /\ agg_report.evaluation_score = 0
        /\ agg_report.overall_score = 0
        /\ agg_report.passed = FALSE
        /\ agg_report.excellence_achieved = FALSE
        /\ agg_report.artifact_types = {}

\* the SubmissionResult without artifact results has been aggregated
C11_Witness ==
    /\ agg_submission.artifact_results = <<>>
    /\ agg_report # NoResult
    /\ ~agg_report.raised
    /\ agg_report.artifact_types = {}

\* C12: for an MCQ artifact with accuracy a = correct/total x 100 (a = 0 when
\* total = 0) the MCQ strategy produces exactly three dimension scores,
\* Analysis = a x 0.9, Communication = min(a, 80.0), Evaluation = a, and the
\* scores are those of exact matching whichever evaluation method the routing
\* configuration selects.  (Scores in hundredths; the equations are the
\* stated ones multiplied by total.)
C12_McqDimensionScores ==
    mcq_pc = "scored" =>
        LET total == mcq_eval.total_questions
            correct == mcq_eval.correct_answers
        IN  /\ Len(mcq_scores) = 3
            /\ mcq_eval = _evaluate_exact_match(mcq_built)
            /\ IF total = 0
               THEN mcq_scores = <<0, 0, 0>>
               ELSE /\ mcq_scores[1] * 10 * total = correct * 10000 * 9
                    /\ mcq_scores[3] * total = correct * 10000
                    /\ IF correct * 10000 <= 8000 * total
                       THEN mcq_scores[2] * total = correct * 10000
                       ELSE mcq_scores[2] = 8000

C12_Witness ==
    /\ mcq_pc = "scored"
    /\ mcq_method = "ai_scoring"
    /\ mcq_eval.total_questions = 2
    /\ mcq_eval.correct_answers = 2
    /\ mcq_scores = <<9000, 8000, 10000>>

Evaluated == mcq_pc \in {"evaluated", "scored"}

\* both options of a raw answer are present strings
HasBothOptions(raw) ==
    /\ raw.selected_option \notin {Missing, None}
    /\ raw.correct_option \notin {Missing, None}

\* case-insensitive, whitespace-trimmed equality of the two options
StatedMatch(raw) == _norm(raw.selected_option) = _norm(raw.correct_option)

\* C13: an MCQ answer supplied without is_correct has, on the parser path and
\* on the payload path alike, its correctness computed as the
\* case-insensitive, whitespace-trimmed equality of selected_option and
\* correct_option, and it is counted accordingly.
C13_CorrectnessComputedWhenAbsent ==
    Evaluated =>
        \A k \in 1..Len(mcq_raw.answers) :
            LET raw == mcq_raw.answers[k]
            IN  (raw.is_correct = Missing /\ HasBothOptions(raw)) =>
                    /\ Len(mcq_artifact.answers) = Len(mcq_raw.answers)
                    /\ (mcq_artifact.answers[k].is_correct = "True") <=> StatedMatch(raw)
                    /\ CorrectIncrement(mcq_built.answers[k]) =
                           (IF StatedMatch(raw) THEN 1 ELSE 0)

\* C14: an MCQ answer whose selected option is None or missing is never
\* counted as correct, whatever its correct option is.
C14_NoneNeverCorrect ==
    Evaluated =>
        \A k \in 1..Len(mcq_raw.answers) :
            mcq_raw.answers[k].selected_option \in {None, Missing} =>
                /\ mcq_artifact.answers[k].is_correct # "True"
                /\ CorrectIncrement(mcq_built.answers[k]) = 0

\* every selected option of the raw list is a string equal to its correct
\* option
AllSelectedEqualCorrect(answers) ==
    /\ Len(answers) > 0
    /\ \A k \in 1..Len(answers) :
          /\ HasBothOptions(answers[k])
          /\ answers[k].selected_option = answers[k].correct_option

\* C15: a raw answer list in which every selected option equals its correct
\* option, normalized by the parser, turned into a task and scored, gives
\* correct_answers = len(answers) and accuracy 100.0; for the list
\* [{question_id: q1, selected_option: B, correct_option: B}] that is
\* correct_answers = 1.
C15_RoundTrip ==
    (mcq_pc = "scored" /\ mcq_path = "parser" /\ AllSelectedEqualCorrect(mcq_raw.answers)) =>
        /\ mcq_eval.total_questions = Len(mcq_raw.answers)
        /\ mcq_eval.correct_answers = Len(mcq_raw.answers)
        /\ mcq_eval.accuracy_percentage = 10000

\* total_questions == len(answers), correct_answers == count(is_correct ==
\* true), score_percentage == correct_answers / total_questions x 100
ArtifactInvariant(artifact) ==
    /\ artifact.total_questions = Len(artifact.answers)
    /\ artifact.correct_answers =
           Cardinality({k \in 1..Len(artifact.answers) :
                            artifact.answers[k].is_correct = "True"})
    /\ IF artifact.total_questions = 0
       THEN artifact.score_percentage = 0
       ELSE artifact.score_percentage * artifact.total_questions =
                artifact.correct_answers * 10000

\* C16: every MCQArtifact the parser or the strategy builds satisfies the
\* artifact invariant, and the strategy's artifact still satisfies it after
\* its answers were evaluated.
C16_ArtifactInvariant ==
    /\ mcq_parsed # NoArtifact => ArtifactInvariant(mcq_parsed)
    /\ mcq_built # NoArtifact => ArtifactInvariant(mcq_built)
    /\ mcq_artifact # NoArtifact => ArtifactInvariant(mcq_artifact)

\* C17: parse_csv never raises on a decodable CSV: whatever the rows hold,
\* an unsupported artifact_type or unparseable content included, it returns
\* submissions, with an artifact for every row of the known schema.
C17_ParseNeverRaises ==
    /\ csv_pc # "raised"
    /\ (csv_pc = "returned" /\ csv_input.kind = "known") =>
           \A k \in 1..Len(csv_input.rows) :
               \E i \in 1..Len(csv_submissions) :
                   /\ csv_submissions[i].submission_id = csv_input.rows[k].submission_id
                   /\ Len(csv_submissions[i].artifacts) =
                          Len(RowsOf(csv_input.rows, csv_input.rows[k].submission_id))

\* no column of the file is a question, writing, speaking or listening column
NoRecognizedColumn(columns) ==
    \A k \in 1..Len(columns) :
        columns[k] \notin {"1. Question", "Writing prompt", "Speaking prompt",
                           "Listening prompt"}

\* C18: for a row of a file with no recognized column the dynamic parser
\* gives a submission with exactly one artifact, of type TEXT, whose text is
\* the whole row serialized; and every submission the dynamic parser returns
\* has at least one artifact, one submission per row.
C18_DynamicFallback ==
    (csv_pc = "returned" /\ csv_input.kind = "dynamic") =>
        /\ Len(csv_submissions) = Len(csv_input.rows)
        /\ \A k \in 1..Len(csv_submissions) :
              /\ Len(csv_submissions[k].artifacts) >= 1
              /\ NoRecognizedColumn(csv_input.columns) =>
                    /\ Len(csv_submissions[k].artifacts) = 1
                    /\ csv_submissions[k].artifacts[1].artifact_type = "text"
                    /\ csv_submissions[k].artifacts[1].content.text_content =
                           <<"json", csv_input.rows[k]>>

C18_Witness ==
    /\ csv_pc = "returned"
    /\ csv_input.kind = "dynamic"
    /\ NoRecognizedColumn(csv_input.columns)
    /\ Len(csv_input.rows) = 2
    /\ Len(csv_submissions) = 2
    /\ csv_submissions[2].artifacts[1].metadata = <<"source", "dynamic_fallback">>

\* C19: route_submission returns exactly one ProcessingTask per artifact of
\* the submission, in artifact order, for any institution id and each of the
\* three artifact types; no artifact is left without a task.
C19_OneTaskPerArtifact ==
    (rt_builder = "route_submission" /\ rt_pc # "start") =>
        /\ Len(rt_tasks) = Len(rt_submission.artifacts)
        /\ \A k \in 1..Len(rt_tasks) :
              /\ rt_tasks[k].artifact_id = rt_submission.artifacts[k].artifact_id
              /\ rt_tasks[k].artifact_type = rt_submission.artifacts[k].artifact_type

\* C20: every output of the executor, for a succeeded and for a failed task
\* alike, carries the submission_id, student_id and batch_id of the
\* submission the task was built from, and the SubmissionResult built from
\* the outputs has that submission's student_id and batch_id.
C20_IdentityTagged ==
    /\ rt_pc \in {"executed", "finalized"} =>
          \A k \in 1..Len(rt_completed) :
              /\ rt_completed[k].submission_id = rt_submission.submission_id
              /\ rt_completed[k].student_id = rt_submission.student_id
              /\ rt_completed[k].batch_id = rt_submission.batch_id
    /\ (rt_pc = "finalized" /\ ~rt_result.raised) =>
          /\ rt_result.submission_id = rt_submission.submission_id
          /\ rt_result.student_id = rt_submission.student_id
          /\ rt_result.batch_id = rt_submission.batch_id

\* C21: whatever the evaluator does (unavailable, failing call, text that is
\* no JSON, a response that is no object, score fields missing or rejected
\* by float()), scoring a non-empty TEXT artifact ends with a well-formed
\* CompletedArtifact: evaluate_text_ace did not raise, the result has no
\* error and three scores within 0..100, a missing score is 0.0 and one
\* rejected by float() makes every score 0.0, a missing feedback is "" (the
\* overall one "Evaluation complete."), and with the evaluator unavailable
\* the overall score is 0.0 and the feedback is the error text.
TextScored == tx_pc = "done" /\ strip(tx_task.artifact_payload.text_content) # ""
Rejected(x) == float(GetField(x, Num(0))).raised
AnyRejected(d) ==
    Rejected(d.analysis_score) \/ Rejected(d.communication_score) \/ Rejected(d.evaluation_score)
ScoreOf(i) == tx_completed.artifact_result.ace_scores[i].score
NearestHundredth(rounded, num, den) ==
    /\ 2 * (rounded * den - num) <= den
    /\ 2 * (num - rounded * den) <= den
SumOf(field) == SumSeq(MapSeq(bs_reports, LAMBDA s : s[field]))
CountOf(field) == Cardinality({i \in 1..Len(bs_reports) : bs_reports[i][field]})
C22_BatchSummary ==
    bs_pc = "done" =>
        /\ ~bs_summary.raised
        /\ bs_summary.total_students = Len(bs_reports)
        /\ bs_reports = <<>> =>
               /\ bs_summary.average_overall = 0 /\ bs_summary.average_analysis = 0
               /\ bs_summary.average_communication = 0
               /\ bs_summary.average_evaluation = 0
               /\ bs_summary.pass_rate = 0 /\ bs_summary.excellence_rate = 0
        /\ bs_reports # <<>> =>
               LET n == Len(bs_reports)
               IN  /\ NearestHundredth(bs_summary.average_overall, SumOf("overall_score"), n)
                   /\ NearestHundredth(bs_summary.average_analysis, SumOf("analysis_score"), n)
                   /\ NearestHundredth(bs_summary.average_communication,
                                       SumOf("communication_score"), n)
                   /\ NearestHundredth(bs_summary.average_evaluation,
                                       SumOf("evaluation_score"), n)
                   /\ NearestHundredth(bs_summary.pass_rate, CountOf("passed") * 10000, n)
                   /\ NearestHundredth(bs_summary.excellence_rate,
                                       CountOf("excellence_achieved") * 10000, n)

\* three students, two of them passed and one excellent: pass_rate 66.67
C22_Witness ==
    /\ bs_pc = "done"
    /\ Len(bs_reports) = 3
    /\ bs_summary.pass_rate = 6667
    /\ bs_summary.excellence_rate = 3333

\* the summary of the empty list
C22_WitnessEmpty == bs_pc = "done" /\ bs_reports = <<>> /\ bs_summary.total_students = 0

\* C23: executing a task leaves what the caller handed over unchanged: the
\* MCQArtifact a task carries as its payload holds, at every step of the
\* processing, the answers it held when the task was built.
C23_PayloadNotMutated ==
    ex_pc \in {"task", "extracted", "evaluated"} /\ ex_task.artifact_payload.type = "MCQArtifact"
        => ex_heap[ex_task.artifact_payload.ref] = ex_given

\* C24: the extraction uses the first shape that matches, in the order
\* MCQArtifact instance, dict with answers under mcq_data, dict with a
\* direct answers list, JSON string under artifact_content, bare JSON
\* string; a payload of no such shape becomes one answer with question_id =
\* the artifact's id and is_correct false: total_questions 1,
\* correct_answers 0.
HasAnswers(parsed) ==
    parsed.type = "list" \/ (parsed.type = "dict" /\ parsed.answers.type = "list")
AnswersOf(parsed) == IF parsed.type = "list" THEN parsed.items ELSE parsed.answers.items
ExpectedSource(payload) ==
    CASE payload.type = "MCQArtifact" -> "typed"
      [] payload.type = "dict" /\ payload.mcq_data.type = "dict"
           /\ payload.mcq_data.answers.type # "missing" -> "mcq_data"
      [] payload.type = "dict" /\ payload.answers.type = "list" -> "answers"
      [] payload.type = "dict" /\ payload.artifact_content.type = "str"
           /\ HasAnswers(payload.artifact_content.parsed) -> "artifact_content"
      [] payload.type = "str" /\ HasAnswers(payload.parsed) -> "str"
      [] OTHER -> "none"
ExtractedArtifact == ex_heap[ex_extract.ref]
C24_ExtractionOrder ==
    ex_pc \in {"extracted", "failed"} =>
        LET payload == ex_task.artifact_payload
            source == ExpectedSource(payload)
        IN  /\ source = "typed" =>
                   ex_extract.ref = payload.ref /\ ExtractedArtifact = ex_given
            /\ source = "mcq_data" =>
                   IF payload.mcq_data.answers.type = "list"
                   THEN ExtractedArtifact = build_from_list(payload.mcq_data.answers.items)
                   ELSE ex_extract.raised
            /\ source = "answers" =>
                   ExtractedArtifact = build_from_list(payload.answers.items)
            /\ source = "artifact_content" =>
                   ExtractedArtifact =
                       build_from_list(AnswersOf(payload.artifact_content.parsed))
            /\ source = "str" =>
                   ExtractedArtifact = build_from_list(AnswersOf(payload.parsed))
            /\ source = "none" =>
                   /\ Len(ExtractedArtifact.answers) = 1
                   /\ ExtractedArtifact.answers[1].question_id = ex_task.artifact_id
                   /\ ExtractedArtifact.answers[1].is_correct = "False"
                   /\ ExtractedArtifact.total_questions = 1
                   /\ ExtractedArtifact.correct_answers = 0
            /\ ex_extract.raised => source = "mcq_data"

\* a dict with answers under mcq_data, a direct answers list and JSON under
\* artifact_content: the mcq_data answers were taken
C24_Witness ==
    /\ ex_pc = "extracted"
    /\ ex_task.artifact_payload.type = "dict"
    /\ ex_task.artifact_payload.mcq_data = JDict(JList(AnswersAt("q_mcq_data")))
    /\ ex_task.artifact_payload.answers = JList(AnswersAt("q_answers"))
    /\ ex_task.artifact_payload.artifact_content = JStr(JList(AnswersAt("q_content")))
    /\ ExtractedArtifact.answers[1].question_id = "q_mcq_data"

\* a payload of no accepted shape was wrapped into one answer
C24_WitnessFallback ==
    /\ ex_pc = "extracted"
    /\ ex_task.artifact_payload = JOther
    /\ ExtractedArtifact.answers[1].question_id = "art1"

\* C25: for a map without negative entries, the weights attached to the
\* scores are the map's entries divided by their sum, so they add up to
\* 1.0, with weight 0 for a dimension the map does not name; when the map is
\* absent or all zero the three weights are 0 and the overall score is the
\* unweighted mean of the three dimension scores.
NonNegativeMapping == \A d \in 1..3 : RawWeight(aw_mapping, d) >= 0
AllZeroMapping == \A d \in 1..3 : RawWeight(aw_mapping, d) = 0
C25_WitnessAbsent ==
    /\ aw_pc = "done"
    /\ aw_mapping = NoMapping
    /\ aw_raw = <<8000, 0, 12000>>
    /\ aw_overall = Div(18000, 3)

\* C29: the overall score of an artifact lies within 0..100 for every
\* ace_weight_mapping, negative, zero or non-normalized entries included.
C29_OverallInRange ==
    aw_pc = "done" =>
        /\ aw_overall.ok
        /\ ScoreFloor * aw_overall.den <= aw_overall.num
        /\ aw_overall.num <= ScoreCeiling * aw_overall.den

\* C26: a result with an empty ace_scores list adds its artifact-type weight
\* to the denominator and nothing to the weighted sums: each dimension score
\* is the sum of score x type weight over the results that have scores,
\* divided by the type weights of all results, rounded (one MCQ result
\* scoring s and one failed TEXT result give s x 0.4 / 0.75); and appending
\* one more failed result of any type never raises a dimension score.
DimensionsOf(report) ==
    <<report.analysis_score, report.communication_score, report.evaluation_score>>
AllWeights(results) ==
    SumSeq(MapSeq(results, LAMBDA a : artifact_weights[a.artifact_type]))
ScoredSum(results, d) ==
    SumSeq(MapSeq(results, LAMBDA a :
        IF a.ace_scores = <<>> THEN 0
        ELSE a.ace_scores[d].score * artifact_weights[a.artifact_type]))
WithFailed(submission, artifact_type) ==
    [submission EXCEPT !.artifact_results =
        Append(@, ScoredResult(Len(@) + 1, artifact_type, <<>>))]
OneMcqOneFailedText ==
    /\ Len(Loaded) = 2
    /\ Loaded[1].artifact_type = "mcq" /\ Loaded[1].ace_scores # <<>>
    /\ Loaded[2].artifact_type = "text" /\ Loaded[2].ace_scores = <<>>
C26_FailedResultDilutes ==
    (HasReport /\ Loaded # <<>>) =>
        /\ \A d \in 1..3 :
               NearestHundredth(DimensionsOf(agg_report)[d], ScoredSum(Loaded, d),
                                AllWeights(Loaded))
        /\ OneMcqOneFailedText =>
               \A d \in 1..3 :
                   NearestHundredth(DimensionsOf(agg_report)[d],
                                    Loaded[1].ace_scores[d].score * 40, 40 + 35)
        /\ agg_report_permuted = NoResult =>
           \A t \in ArtifactType :
               \A up \in TieChoices(WithFailed(agg_submission, t)) :
                   LET more == _aggregate_single_submission(WithFailed(agg_submission, t), up)
                   IN  ~more.raised =>
                           \A d \in 1..3 :
                               DimensionsOf(more)[d] <= DimensionsOf(agg_report)[d]

\* one MCQ result scoring 90 and one failed TEXT result: 90 x 0.4 / 0.75 = 48
C26_Witness ==
    /\ HasReport
    /\ OneMcqOneFailedText
    /\ Loaded[1].ace_scores[1].score = 9000
    /\ agg_report.analysis_score = 4800

\* C27: process_batch returns the BatchReport for every batch with at least
\* one collected submission: it never ends with an exception, whichever of
\* the CSV export, the CSV upload, a student's PDF and the JSON upload fail.
C27_ProcessBatchReturns ==
    pb_collected >= 1 => pb_pc # "raised"

\* C28: collect_results(batch_id) returns only SubmissionResults whose
\* batch_id is the requested one, in local mode as in object-store mode,
\* whatever ids the stored results have.
C28_OnlyRequestedBatch ==
    rc_pc = "collected" => \A r \in rc_collected : r.batch_id = rc_requested

\* C30: after any sequence of get_institution_config,
\* save_institution_config and invalidate_cache, the object a lookup returns
\* was cached after the latest successful save or invalidation of that
\* institution's entry, and a lookup that returned None left nothing in the
\* cache; no cache entry is older than its institution's latest save or
\* invalidation.
C30_NoStaleLookup ==
    /\ (cl_last.op = "get" /\ cl_last.found) => cl_last.object.at > cl_last.reset
    /\ (cl_last.op = "get" /\ ~cl_last.found) =>
           ~cl_cache[CacheKey(cl_last.institution_id)].cached
    /\ cl_clock > 0 =>
           \A i \in Institutions :
               cl_cache[CacheKey(i)].cached => cl_cache[CacheKey(i)].at > cl_reset[i]

\* a lookup cached version 1, a save replaced it, and the next lookup
\* returned the saved version
C30_Witness ==
    /\ cl_last.op = "get"
    /\ cl_last.found
    /\ cl_last.reset > 1
    /\ cl_last.object.version > 1
    /\ cl_last.object.version < DynamoVersion

\* a lookup that found nothing returned None
C30_WitnessNone == cl_last.op = "get" /\ ~cl_last.found /\ cl_clock > 1
====
